---- MODULE Spec2Model ----
(***************************************************************************)
(* Model of the telemetry ingestion pipeline of src/telemetry/store.rs:    *)
(* TelemetrySqliteStore (open / submit_action / submit_system_sample /     *)
(* shutdown / Drop), the bounded sync_channel between the producers and    *)
(* the writer thread, writer_loop and flush_batch, and the part of the     *)
(* SQLite connection the writer relies on (one transaction at a time,      *)
(* rows visible once committed); of the session state of                   *)
(* src/telemetry/observer.rs (TelemetryObserver::record_event); of the     *)
(* export queries of src/telemetry/reader.rs; and of the sampling loop and *)
(* shannon_entropy of src/telemetry/collector.rs.                          *)
(***************************************************************************)
EXTENDS Integers, Sequences, FiniteSets, TLC

\* ---- bounds of the model ------------------------------------------------
Capacity == 2          \* buffer_capacity handed to open()
MaxAction == 3         \* submit_action calls explored
MaxSample == 2         \* submit_system_sample calls explored
MaxFaults == 2         \* database failures injected in one behaviour
MaxShutdownCalls == 2  \* shutdown() calls explored (explicit calls and Drop)
BulkAction == 11       \* submit_action calls explored in the bulk workload
MaxEvents == 3         \* record_event calls explored, made concurrently
MaxSeqEvents == 5      \* record_event calls explored, made one by one
MaxExportRows == 3     \* records submitted in a behaviour with an export
MaxEpoch == 2          \* largest ts_epoch_ms explored
MaxLimit == 2          \* largest limit an export is called with
MaxRaw == 1            \* largest value a raw counter of the collector shows
MaxTicks == 2          \* iterations of the collector's loop explored
MaxIps == 4            \* most addresses shannon_entropy is called with

\* ---- program constants --------------------------------------------------
BatchMax == 10         \* store.rs:154  while batch.len() < 10

VARIABLES
    openPc,         \* position of open(): "schema", "spawn", "ready", "failed"
    storeAlive,     \* the TelemetrySqliteStore value exists (not yet dropped)
    sender,         \* self.sender is Some
    join_handle,    \* self.join_handle is Some
    callerPc,       \* "idle", or "joining" while shutdown() blocks in join()
    dropping,       \* the shutdown() in progress was entered from Drop
    queue,          \* contents of the sync_channel, oldest first
    connected,      \* a SyncSender of the channel still exists
    receiverAlive,  \* the Receiver still exists (the writer has not returned)
    pcWriter,       \* position of the writer thread in writer_loop/flush_batch
    batch,          \* writer_loop's local Vec<WriteOp>
    idx,            \* position of flush_batch's for loop in the batch
    exitAfter,      \* flush_batch was called from a path that returns after it
    connOwner,      \* holder of the writable Connection: main, writer, closed
    inTxn,          \* the connection has an open transaction
    txnRows,        \* rows inserted in the open transaction, not yet committed
    action_events,  \* committed rows of table action_events, in rowid order
    system_samples, \* committed rows of table system_samples, in rowid order
    nAction,        \* submit_action calls made so far
    nSample,        \* submit_system_sample calls made so far
    faults,         \* database failures injected so far
    workload,       \* the calls and failures this behaviour explores (fixed)
    accepted,       \* history: ops that try_send placed on the queue, in order
    flushed,        \* history: ops handed to flush_batch, in order
    batchFault,     \* history: a database failure was injected in this flush
    failedIdx,      \* history: positions of the batch whose INSERT failed
    flushResult,    \* history: how this flush ended, "none" while it runs
    lastCommit,     \* history: rows the COMMIT of this flush committed
    sqlUse,         \* history: <<thread, openPc, connOwner>> of each SQL call
    sentinels,      \* history: try_send(WriteOp::Shutdown) calls made
    sentinelRes,    \* history: result of the latest of them, "none" before
    joins,          \* history: JoinHandle::join calls made
    shutdownCalls,  \* history: shutdown() calls made
    shutdownReturns,\* history: shutdown() calls that returned
    payload,        \* the ActionRecord handed to the k-th submit_action call
    samplePayload,  \* the SystemSample of the k-th submit_system_sample call
    turn_counter,   \* TelemetryObserver.turn_counter
    sequence_counter,       \* TelemetryObserver.sequence_counter
    previous_action_type,   \* TelemetryObserver.previous_action_type
    turn_action_sequence,   \* TelemetryObserver.turn_action_sequence
    is_user_initiated,      \* TelemetryObserver.is_user_initiated
    obsPc,          \* position of each thread inside record_event, or "idle"
    obsLocal,       \* the locals of each thread's record_event call
    history,        \* history: the finished record_event calls, their records
    starts,         \* history: turn and record count at each AgentStart
    exported,       \* the latest export call of the reader and its result
    colPc,          \* position of run_system_collector
    target_os,      \* the build: "linux" or "other" (cfg(target_os))
    prev_process_count,     \* run_system_collector's prev_process_count
    prev_io,        \* run_system_collector's prev_io
    readings,       \* history: the raw values of the baseline and each tick
    values,         \* shannon_entropy's argument
    entropy         \* shannon_entropy's return value, None during the call

vars == <<openPc, storeAlive, sender, join_handle, callerPc, dropping, queue,
          connected, receiverAlive, pcWriter, batch, idx, exitAfter, connOwner,
          inTxn, txnRows, action_events, system_samples, nAction, nSample,
          faults, workload, accepted, flushed, batchFault, failedIdx,
          flushResult, lastCommit, sqlUse, sentinels, sentinelRes, joins,
          shutdownCalls, shutdownReturns, payload, samplePayload,
          turn_counter, sequence_counter, previous_action_type,
          turn_action_sequence, is_user_initiated, obsPc, obsLocal, history,
          starts, exported, colPc, target_os, prev_process_count, prev_io,
          readings, values, entropy>>

storeVars == <<storeAlive, sender, join_handle, callerPc, dropping>>
chanVars == <<queue, connected, receiverAlive>>
writerVars == <<pcWriter, batch, idx, exitAfter>>
dbVars == <<connOwner, inTxn, txnRows, action_events, system_samples>>
prodVars == <<nAction, nSample, workload>>
shutHist ==
    <<sentinels, sentinelRes, joins, shutdownCalls, shutdownReturns>>
flushHist == <<batchFault, failedIdx, flushResult, lastCommit>>
payVars == <<payload, samplePayload>>
sessionVars == <<turn_counter, sequence_counter, previous_action_type,
                 turn_action_sequence, is_user_initiated>>
obsVars == <<sessionVars, obsPc, obsLocal, history, starts>>
colVars == <<colPc, target_os, prev_process_count, prev_io, readings>>
entVars == <<values, entropy>>
\* what the store's own steps leave alone
sideVars == <<obsVars, exported, colVars, entVars>>
\* the store, for the steps of the observer, the reader and the collector
storeAll == <<openPc, storeVars, chanVars, writerVars, dbVars, prodVars,
              faults, accepted, flushed, flushHist, sqlUse, shutHist>>
\* what a caller of submit_action / submit_system_sample leaves alone in the
\* store
calleeVars == <<openPc, storeVars, connected, receiverAlive, writerVars,
                dbVars, workload, faults, flushed, flushHist, sqlUse,
                shutHist>>

\* ---- WriteOp ------------------------------------------------------------
ActionEvent(n) == [kind |-> "ActionEvent", id |-> n]
SystemSample(n) == [kind |-> "SystemSample", id |-> n]
Shutdown == [kind |-> "Shutdown", id |-> 0]

\* ---- Option<T> ------------------------------------------------------------
None == <<>>
Some(x) == <<x>>

\* ---- ActionRecord and SystemSample (store.rs:9-48) -------------------------
\* make_action_record() of the store's tests; the timestamp is scaled down and
\* a turn id is the triple TelemetryObserver::turn_id() formats
make_action_record ==
    [ts |-> "2026-01-01T00:00:00Z", ts_epoch_ms |-> 1, session_id |-> "sess-1",
     turn_id |-> <<"sess-1", "-t", 1>>, sequence_index |-> 0,
     event_type |-> "llm_response", provider |-> Some("openai"),
     model |-> Some("gpt-4"), tool_name |-> None,
     tool_type_embedding |-> None, arguments_hash |-> None,
     tool_success |-> None, duration_ms |-> Some(150),
     tokens_in |-> Some(100), tokens_out |-> Some(50),
     is_user_initiated |-> TRUE, iteration_index |-> 0,
     previous_action_type |-> None,
     turn_action_sequence |-> Some(<<"[", "llm_response", "]">>),
     error_message |-> None]

\* the SystemSample of store_open_and_insert_system_sample; an f64 the model
\* does not compute with is an opaque value
make_system_sample ==
    [ts |-> "2026-01-01T00:00:01Z", ts_epoch_ms |-> 1,
     cpu_usage_pct |-> "23.5", memory_used_bytes |-> 1000000,
     memory_total_bytes |-> 8000000, process_count |-> 120,
     process_spawn_rate |-> 2, file_read_bytes |-> 4096,
     file_write_bytes |-> 2048, net_connections |-> 15,
     dest_ip_entropy |-> "2.3", syscall_freq_json |-> None]

\* the threads that call record_event on the one observer
Threads == {1, 2}

\* the workloads explored: a mixed one (both producers), with and without
\* database failures, and a bulk one (one producer, enough records to fill a
\* batch)
Workload(a, s, f) == [actions |-> a, samples |-> s, faults |-> f]

Workloads ==
    { Workload(MaxAction, MaxSample, MaxFaults),
      Workload(MaxAction, MaxSample, 0),
      Workload(BulkAction, 0, 0) }

MaxId == IF MaxAction > BulkAction THEN MaxAction ELSE BulkAction

AllRecords == {ActionEvent(n) : n \in 1..MaxId}
                \cup {SystemSample(n) : n \in 1..MaxSample}

Range(s) == {s[i] : i \in 1..Len(s)}
IsActionEvent(op) == op.kind = "ActionEvent"
IsSystemSample(op) == op.kind = "SystemSample"
Occurrences(s, r) == Cardinality({i \in 1..Len(s) : s[i] = r})

\* mutant of try_send: an unbounded channel (mpsc::channel), never Full
try_send_Unbounded(q, op) ==
    IF ~receiverAlive THEN [res |-> "Disconnected", q |-> q]
    ELSE [res |-> "Ok", q |-> Append(q, op)]

\* SyncSender::try_send on a channel holding q
try_send(q, op) ==
    IF ~receiverAlive THEN [res |-> "Disconnected", q |-> q]
    ELSE IF Len(q) >= Capacity THEN [res |-> "Full", q |-> q]
    ELSE [res |-> "Ok", q |-> Append(q, op)]

\* TelemetryObserver::new: counters 0, no previous kind, empty history, flag
\* clear; no thread is inside record_event
ObserverNew ==
    /\ turn_counter = 0
    /\ sequence_counter = 0
    /\ previous_action_type = None
    /\ turn_action_sequence = <<>>
    /\ is_user_initiated = FALSE
    /\ obsPc = [t \in Threads |-> "idle"]
    /\ obsLocal = [t \in Threads |-> None]
    /\ history = <<>>
    /\ starts = <<>>

\* run_system_collector has not been spawned
CollectorUnstarted ==
    /\ colPc = "unstarted"
    /\ target_os = "linux"
    /\ prev_process_count = 0
    /\ prev_io = <<0, 0>>
    /\ readings = <<>>

\* no call of shannon_entropy is in progress
EntropyIdle ==
    /\ values = <<>>
    /\ entropy = None

Init ==
    /\ openPc = "schema"
    /\ storeAlive = FALSE
    /\ sender = FALSE
    /\ join_handle = FALSE
    /\ callerPc = "idle"
    /\ dropping = FALSE
    /\ queue = <<>>
    /\ connected = FALSE
    /\ receiverAlive = FALSE
    /\ pcWriter = "unstarted"
    /\ batch = <<>>
    /\ idx = 0
    /\ exitAfter = FALSE
    /\ connOwner = "main"
    /\ inTxn = FALSE
    /\ txnRows = <<>>
    /\ action_events = <<>>
    /\ system_samples = <<>>
    /\ nAction = 0
    /\ nSample = 0
    /\ faults = 0
    /\ workload \in Workloads
    /\ accepted = <<>>
    /\ flushed = <<>>
    /\ batchFault = FALSE
    /\ failedIdx = {}
    /\ flushResult = "none"
    /\ lastCommit = <<>>
    /\ sqlUse = {}
    /\ sentinels = 0
    /\ sentinelRes = "none"
    /\ joins = 0
    /\ shutdownCalls = 0
    /\ shutdownReturns = 0
    /\ payload = <<>>
    /\ samplePayload = <<>>
    /\ ObserverNew
    /\ exported = None
    /\ CollectorUnstarted
    /\ EntropyIdle

\* ---- TelemetrySqliteStore::open ------------------------------------------
\* PRAGMA and DDL batches, run by the caller of open() on the new connection
OpenSchema ==
    /\ openPc = "schema"
    /\ sqlUse' = sqlUse \cup {<<"main", openPc, connOwner>>}
    /\ \E ok \in BOOLEAN :
         openPc' = IF ok THEN "spawn" ELSE "failed"
    /\ UNCHANGED <<storeVars, chanVars, writerVars, dbVars, prodVars, faults,
                   accepted, flushed, flushHist, shutHist>>
    /\ UNCHANGED <<payVars, sideVars>>

\* mutant of OpenSpawn: the writer thread is started before the schema is
\* set up, so the caller of open() still runs its DDL afterwards
OpenSpawn_BeforeSchema ==
    /\ openPc = "schema"
    /\ pcWriter = "unstarted"
    /\ storeAlive' = TRUE
    /\ sender' = TRUE
    /\ join_handle' = TRUE
    /\ connected' = TRUE
    /\ receiverAlive' = TRUE
    /\ pcWriter' = "recv"
    /\ connOwner' = "writer"
    /\ UNCHANGED <<openPc, callerPc, dropping, queue, batch, idx, exitAfter,
                   inTxn, txnRows, action_events, system_samples, prodVars,
                   faults, accepted, flushed, flushHist, sqlUse, shutHist>>
    /\ UNCHANGED <<payVars, sideVars>>

\* sync_channel, thread spawn (the connection moves into the writer), Ok(Self)
OpenSpawn ==
    /\ openPc = "spawn"
    /\ \E ok \in BOOLEAN :
         IF ok
         THEN /\ openPc' = "ready"
              /\ storeAlive' = TRUE
              /\ sender' = TRUE
              /\ join_handle' = TRUE
              /\ connected' = TRUE
              /\ receiverAlive' = TRUE
              /\ pcWriter' = "recv"
              /\ connOwner' = "writer"
         ELSE /\ openPc' = "failed"
              /\ connOwner' = "closed"
              /\ UNCHANGED <<storeAlive, sender, join_handle, connected,
                             receiverAlive, pcWriter>>
    /\ UNCHANGED <<callerPc, dropping, queue, batch, idx, exitAfter, inTxn,
                   txnRows, action_events, system_samples, prodVars, faults,
                   accepted, flushed, flushHist, sqlUse, shutHist>>
    /\ UNCHANGED <<payVars, sideVars>>

\* ---- submit_action / submit_system_sample ---------------------------------
\* mutant of Submit: the blocking send() instead of try_send()
Submit_Blocking(op) ==
    /\ openPc = "ready" /\ storeAlive /\ callerPc = "idle"
    /\ IF sender
       THEN /\ Len(queue) < Capacity
            /\ queue' = Append(queue, op)
            /\ accepted' = Append(accepted, op)
       ELSE UNCHANGED <<queue, accepted>>

\* mutant of Submit: a full queue gives up its oldest item for the new one
Submit_EvictOldest(op) ==
    /\ openPc = "ready" /\ storeAlive /\ callerPc = "idle"
    /\ IF sender
       THEN /\ queue' = IF Len(queue) >= Capacity
                        THEN Append(Tail(queue), op)
                        ELSE Append(queue, op)
            /\ accepted' = Append(accepted, op)
       ELSE UNCHANGED <<queue, accepted>>

\* if let Some(ref sender) = self.sender { try_send(op); Full => warn }
Submit(op) ==
    /\ openPc = "ready" /\ storeAlive /\ callerPc = "idle"
    /\ IF sender
       THEN LET r == try_send(queue, op) IN
            /\ queue' = r.q
            /\ accepted' =
                 IF r.res = "Ok" THEN Append(accepted, op) ELSE accepted
       ELSE UNCHANGED <<queue, accepted>>

\* store.submit_action(record): the k-th call hands over ActionEvent(k),
\* whose fields are payload[k]
SubmitAction(record) ==
    /\ nAction < workload.actions
    /\ Submit(ActionEvent(nAction + 1))
    /\ nAction' = nAction + 1
    /\ payload' = Append(payload, record)
    /\ UNCHANGED <<calleeVars, nSample, samplePayload>>

\* store.submit_system_sample(sample), likewise
SubmitSystemSample(sample) ==
    /\ nSample < workload.samples
    /\ Submit(SystemSample(nSample + 1))
    /\ nSample' = nSample + 1
    /\ samplePayload' = Append(samplePayload, sample)
    /\ UNCHANGED <<calleeVars, nAction, payload>>

\* submit_action as the store sees it: the fields of the record play no part
\* in the store's control flow, the k-th record is ActionEvent(k)
submit_action ==
    /\ nAction < workload.actions
    /\ Submit(ActionEvent(nAction + 1))
    /\ nAction' = nAction + 1
    /\ UNCHANGED <<calleeVars, nSample, payVars, sideVars>>

\* submit_system_sample, likewise
submit_system_sample ==
    /\ nSample < workload.samples
    /\ Submit(SystemSample(nSample + 1))
    /\ nSample' = nSample + 1
    /\ UNCHANGED <<calleeVars, nAction, payVars, sideVars>>

\* ---- shutdown / Drop -----------------------------------------------------
\* mutant of ShutdownCall: shutdown() only sends the sentinel and returns; it
\* keeps the sender and does not join the thread
ShutdownCall_SentinelOnly(fromDrop) ==
    /\ openPc = "ready" /\ storeAlive /\ callerPc = "idle"
    /\ shutdownCalls < MaxShutdownCalls
    /\ shutdownCalls' = shutdownCalls + 1
    /\ queue' = try_send(queue, Shutdown).q
    /\ sentinels' = sentinels + 1
    /\ sentinelRes' = try_send(queue, Shutdown).res
    /\ shutdownReturns' = shutdownReturns + 1
    /\ storeAlive' = ~fromDrop
    /\ UNCHANGED <<sender, connected, join_handle, joins, callerPc, dropping>>
    /\ UNCHANGED <<openPc, receiverAlive, writerVars, dbVars, prodVars, faults,
                   accepted, flushed, flushHist, sqlUse>>
    /\ UNCHANGED <<payVars, sideVars>>

\* mutant of ShutdownCall: the sender is borrowed (as_ref) instead of taken,
\* so it stays in place and is not dropped
ShutdownCall_NoTake(fromDrop) ==
    /\ openPc = "ready" /\ storeAlive /\ callerPc = "idle"
    /\ shutdownCalls < MaxShutdownCalls
    /\ shutdownCalls' = shutdownCalls + 1
    /\ IF sender
       THEN /\ queue' = try_send(queue, Shutdown).q
            /\ sentinels' = sentinels + 1
            /\ sentinelRes' = try_send(queue, Shutdown).res
            /\ UNCHANGED <<sender, connected>>
       ELSE UNCHANGED <<queue, sentinels, sentinelRes, sender, connected>>
    /\ IF join_handle
       THEN /\ join_handle' = FALSE
            /\ joins' = joins + 1
            /\ callerPc' = "joining"
            /\ dropping' = fromDrop
            /\ UNCHANGED <<shutdownReturns, storeAlive>>
       ELSE /\ shutdownReturns' = shutdownReturns + 1
            /\ storeAlive' = ~fromDrop
            /\ UNCHANGED <<join_handle, joins, callerPc, dropping>>
    /\ UNCHANGED <<openPc, receiverAlive, writerVars, dbVars, prodVars, faults,
                   accepted, flushed, flushHist, sqlUse>>
    /\ UNCHANGED <<payVars, sideVars>>

\* mutant of ShutdownCall: the sender is taken but leaked (mem::forget)
\* instead of dropped, so the channel never disconnects
ShutdownCall_ForgetSender(fromDrop) ==
    /\ openPc = "ready" /\ storeAlive /\ callerPc = "idle"
    /\ shutdownCalls < MaxShutdownCalls
    /\ shutdownCalls' = shutdownCalls + 1
    /\ IF sender
       THEN /\ queue' = try_send(queue, Shutdown).q
            /\ sentinels' = sentinels + 1
            /\ sentinelRes' = try_send(queue, Shutdown).res
            /\ sender' = FALSE
            /\ UNCHANGED connected
       ELSE UNCHANGED <<queue, sentinels, sentinelRes, sender, connected>>
    /\ IF join_handle
       THEN /\ join_handle' = FALSE
            /\ joins' = joins + 1
            /\ callerPc' = "joining"
            /\ dropping' = fromDrop
            /\ UNCHANGED <<shutdownReturns, storeAlive>>
       ELSE /\ shutdownReturns' = shutdownReturns + 1
            /\ storeAlive' = ~fromDrop
            /\ UNCHANGED <<join_handle, joins, callerPc, dropping>>
    /\ UNCHANGED <<openPc, receiverAlive, writerVars, dbVars, prodVars, faults,
                   accepted, flushed, flushHist, sqlUse>>
    /\ UNCHANGED <<payVars, sideVars>>

\* shutdown(&mut self) up to the point where join() blocks; fromDrop tells an
\* explicit call from the one Drop makes when the store is released
ShutdownCall(fromDrop) ==
    /\ openPc = "ready" /\ storeAlive /\ callerPc = "idle"
    /\ shutdownCalls < MaxShutdownCalls
    /\ shutdownCalls' = shutdownCalls + 1
    /\ IF sender
       THEN /\ queue' = try_send(queue, Shutdown).q
            /\ sentinels' = sentinels + 1
            /\ sentinelRes' = try_send(queue, Shutdown).res
            /\ sender' = FALSE
            /\ connected' = FALSE
       ELSE UNCHANGED <<queue, sentinels, sentinelRes, sender, connected>>
    /\ IF join_handle
       THEN /\ join_handle' = FALSE
            /\ joins' = joins + 1
            /\ callerPc' = "joining"
            /\ dropping' = fromDrop
            /\ UNCHANGED <<shutdownReturns, storeAlive>>
       ELSE /\ shutdownReturns' = shutdownReturns + 1
            /\ storeAlive' = ~fromDrop
            /\ UNCHANGED <<join_handle, joins, callerPc, dropping>>
    /\ UNCHANGED <<openPc, receiverAlive, writerVars, dbVars, prodVars, faults,
                   accepted, flushed, flushHist, sqlUse>>
    /\ UNCHANGED <<payVars, sideVars>>

shutdown == ShutdownCall(FALSE)

Drop == ShutdownCall(TRUE)

\* mutant of ShutdownJoin: shutdown() returns without waiting for the thread
ShutdownJoin_NoWait ==
    /\ callerPc = "joining"
    /\ callerPc' = "idle"
    /\ shutdownReturns' = shutdownReturns + 1
    /\ storeAlive' = ~dropping
    /\ dropping' = FALSE
    /\ UNCHANGED <<openPc, sender, join_handle, chanVars, writerVars, dbVars,
                   prodVars, faults, accepted, flushed, flushHist,
                   sqlUse, sentinels, sentinelRes, joins, shutdownCalls>>
    /\ UNCHANGED <<payVars, sideVars>>

\* handle.join() returns once the writer thread has ended
ShutdownJoin ==
    /\ callerPc = "joining"
    /\ pcWriter = "done"
    /\ callerPc' = "idle"
    /\ shutdownReturns' = shutdownReturns + 1
    /\ storeAlive' = ~dropping
    /\ dropping' = FALSE
    /\ UNCHANGED <<openPc, sender, join_handle, chanVars, writerVars, dbVars,
                   prodVars, faults, accepted, flushed, flushHist,
                   sqlUse, sentinels, sentinelRes, joins, shutdownCalls>>
    /\ UNCHANGED <<payVars, sideVars>>

\* ---- writer_loop ----------------------------------------------------------
\* the writer thread returns: the Receiver, the batch and the Connection are
\* dropped; closing the connection rolls an open transaction back
WriterReturn ==
    /\ pcWriter' = "done"
    /\ batch' = <<>>
    /\ idx' = 0
    /\ exitAfter' = FALSE
    /\ receiverAlive' = FALSE
    /\ connOwner' = "closed"
    /\ inTxn' = FALSE
    /\ txnRows' = <<>>

\* flush_batch(&conn, &batch) is entered; thenReturn: the call site returns
\* after it (store.rs:157-158, 170-171) instead of looping (store.rs:178-179)
CallFlush(b, thenReturn) ==
    /\ pcWriter' = "begin"
    /\ batch' = b
    /\ exitAfter' = thenReturn
    /\ flushed' = flushed \o b
    /\ idx' = 0

\* mutant of FlushAndReturn: the loop is left without flushing the batch
FlushAndReturn_NoFlush(b) ==
    /\ pcWriter' = "flushed"
    /\ batch' = b
    /\ exitAfter' = TRUE
    /\ flushed' = flushed
    /\ idx' = 0

\* Ok(WriteOp::Shutdown) | Err(Disconnected) => { flush_batch(..); return; }
FlushAndReturn(b) == CallFlush(b, TRUE)

\* mutant of Push: the op is put in front of the batch
Push_Front(b, op) == <<op>> \o b

\* batch.push(op)
Push(b, op) == Append(b, op)

\* match rx.recv(): blocks while the channel is empty and a sender exists
WriterRecv ==
    /\ pcWriter = "recv"
    /\ IF queue # <<>>
       THEN IF Head(queue) = Shutdown
            THEN /\ WriterReturn
                 /\ queue' = Tail(queue)
            ELSE /\ batch' = Push(batch, Head(queue))
                 /\ queue' = Tail(queue)
                 /\ pcWriter' = "drain"
                 /\ UNCHANGED <<idx, exitAfter, receiverAlive, connOwner, inTxn,
                                txnRows>>
       ELSE /\ ~connected
            /\ WriterReturn
            /\ UNCHANGED queue
    /\ UNCHANGED <<openPc, storeVars, connected, action_events, system_samples,
                   prodVars, faults, accepted, flushed, flushHist,
                   sqlUse, shutHist>>
    /\ UNCHANGED <<payVars, sideVars>>

\* one turn of  while batch.len() < 10 { match rx.try_recv() ... }  and, when
\* the loop is left, the test  if batch.len() == 1
WriterDrain ==
    /\ pcWriter = "drain"
    /\ IF Len(batch) < BatchMax /\ queue # <<>> /\ Head(queue) = Shutdown
       THEN /\ FlushAndReturn(batch)
            /\ queue' = Tail(queue)
       ELSE IF Len(batch) < BatchMax /\ queue # <<>>
       THEN /\ batch' = Push(batch, Head(queue))
            /\ queue' = Tail(queue)
            /\ UNCHANGED <<pcWriter, idx, exitAfter, flushed>>
       ELSE IF Len(batch) < BatchMax /\ ~connected
       THEN /\ FlushAndReturn(batch)
            /\ UNCHANGED queue
       ELSE IF Len(batch) = 1
       THEN /\ pcWriter' = "wait"
            /\ UNCHANGED <<batch, idx, exitAfter, flushed, queue>>
       ELSE /\ CallFlush(batch, FALSE)
            /\ UNCHANGED queue
    /\ UNCHANGED <<openPc, storeVars, connected, receiverAlive, dbVars,
                   prodVars, faults, accepted, flushHist, sqlUse, shutHist>>
    /\ UNCHANGED <<payVars, sideVars>>

\* mutant of WriterWait: the blocking recv() instead of recv_timeout(1s)
WriterWait_Blocking ==
    /\ pcWriter = "wait"
    /\ IF queue # <<>> /\ Head(queue) = Shutdown
       THEN /\ FlushAndReturn(batch)
            /\ queue' = Tail(queue)
       ELSE IF queue # <<>>
       THEN /\ CallFlush(Push(batch, Head(queue)), FALSE)
            /\ queue' = Tail(queue)
       ELSE /\ ~connected
            /\ CallFlush(batch, FALSE)
            /\ UNCHANGED queue
    /\ UNCHANGED <<openPc, storeVars, connected, receiverAlive, dbVars,
                   prodVars, faults, accepted, flushHist, sqlUse, shutHist>>
    /\ UNCHANGED <<payVars, sideVars>>

\* match rx.recv_timeout(1s): an op when one arrives in time, else Err
WriterWait ==
    /\ pcWriter = "wait"
    /\ IF queue # <<>> /\ Head(queue) = Shutdown
       THEN /\ FlushAndReturn(batch)
            /\ queue' = Tail(queue)
       ELSE IF queue # <<>>
       THEN /\ CallFlush(Push(batch, Head(queue)), FALSE)
            /\ queue' = Tail(queue)
       ELSE /\ CallFlush(batch, FALSE)
            /\ UNCHANGED queue
    /\ UNCHANGED <<openPc, storeVars, connected, receiverAlive, dbVars,
                   prodVars, faults, accepted, flushHist, sqlUse, shutHist>>
    /\ UNCHANGED <<payVars, sideVars>>

\* ---- flush_batch and the connection --------------------------------------
\* the outcomes a statement can have: it succeeds, or the database fails it
\* (at most MaxFaults failures are injected in one behaviour)
Outcomes == IF faults < workload.faults THEN {"ok", "fail"} ELSE {"ok"}

UseSql == sqlUse \cup {<<"writer", openPc, connOwner>>}

\* conn.execute_batch("BEGIN"): SQLite refuses BEGIN inside a transaction
FlushBegin ==
    /\ pcWriter = "begin"
    /\ IF batch = <<>>
       THEN /\ pcWriter' = "flushed"
            /\ flushResult' = "empty"
            /\ UNCHANGED <<idx, inTxn, faults, batchFault, sqlUse>>
       ELSE /\ sqlUse' = UseSql
            /\ \E o \in Outcomes :
                 /\ faults' = IF o = "fail" THEN faults + 1 ELSE faults
                 /\ batchFault' = (o = "fail")
                 /\ IF o = "fail" \/ inTxn
                    THEN /\ pcWriter' = "flushed"
                         /\ flushResult' = "begin_failed"
                         /\ UNCHANGED <<idx, inTxn>>
                    ELSE /\ pcWriter' = "insert"
                         /\ idx' = 1
                         /\ inTxn' = TRUE
                         /\ UNCHANGED flushResult
    /\ UNCHANGED <<failedIdx, lastCommit>>
    /\ UNCHANGED <<openPc, storeVars, chanVars, batch, exitAfter, connOwner,
                   txnRows, action_events, system_samples, prodVars, accepted,
                   flushed, shutHist>>
    /\ UNCHANGED <<payVars, sideVars>>

\* mutant of FlushInsert: a failed INSERT is propagated with `?`, so that
\* flush_batch returns at once
FlushInsert_AbortOnError ==
    /\ pcWriter = "insert"
    /\ idx <= Len(batch)
    /\ sqlUse' = UseSql
    /\ \E o \in Outcomes :
         /\ faults' = IF o = "fail" THEN faults + 1 ELSE faults
         /\ batchFault' = (batchFault \/ o = "fail")
         /\ failedIdx' = IF o = "fail" THEN failedIdx \cup {idx} ELSE failedIdx
         /\ txnRows' = IF o = "ok" /\ batch[idx] # Shutdown
                       THEN Append(txnRows, batch[idx])
                       ELSE txnRows
         /\ pcWriter' = IF o = "fail" THEN "flushed"
                        ELSE IF idx = Len(batch) THEN "commit" ELSE "insert"
    /\ idx' = idx + 1
    /\ UNCHANGED <<openPc, storeVars, chanVars, batch, exitAfter, connOwner,
                   inTxn, action_events, system_samples, prodVars, accepted,
                   flushed, flushResult, lastCommit, shutHist>>
    /\ UNCHANGED <<payVars, sideVars>>

\* mutant of FlushInsert: the INSERT runs in autocommit mode (no transaction
\* around the batch), so its row is visible to other connections at once
FlushInsert_Autocommit ==
    /\ pcWriter = "insert"
    /\ idx <= Len(batch)
    /\ sqlUse' = UseSql
    /\ \E o \in Outcomes :
         /\ faults' = IF o = "fail" THEN faults + 1 ELSE faults
         /\ batchFault' = (batchFault \/ o = "fail")
         /\ failedIdx' = IF o = "fail" THEN failedIdx \cup {idx} ELSE failedIdx
         /\ action_events' =
              IF o = "ok" /\ IsActionEvent(batch[idx])
              THEN Append(action_events, batch[idx]) ELSE action_events
         /\ system_samples' =
              IF o = "ok" /\ IsSystemSample(batch[idx])
              THEN Append(system_samples, batch[idx]) ELSE system_samples
    /\ idx' = idx + 1
    /\ pcWriter' = IF idx = Len(batch) THEN "commit" ELSE "insert"
    /\ UNCHANGED <<openPc, storeVars, chanVars, batch, exitAfter, connOwner,
                   inTxn, txnRows, prodVars, accepted, flushed, flushResult,
                   lastCommit, shutHist>>
    /\ UNCHANGED <<payVars, sideVars>>

\* one turn of  for op in batch { insert_action / insert_system_sample }
\* a failed INSERT adds no row and is logged; the loop goes on
FlushInsert ==
    /\ pcWriter = "insert"
    /\ idx <= Len(batch)
    /\ sqlUse' = UseSql
    /\ \E o \in Outcomes :
         /\ faults' = IF o = "fail" THEN faults + 1 ELSE faults
         /\ batchFault' = (batchFault \/ o = "fail")
         /\ failedIdx' = IF o = "fail" THEN failedIdx \cup {idx} ELSE failedIdx
         /\ txnRows' = IF o = "ok" /\ batch[idx] # Shutdown
                       THEN Append(txnRows, batch[idx])
                       ELSE txnRows
    /\ idx' = idx + 1
    /\ pcWriter' = IF idx = Len(batch) THEN "commit" ELSE "insert"
    /\ UNCHANGED <<openPc, storeVars, chanVars, batch, exitAfter, connOwner,
                   inTxn, action_events, system_samples, prodVars, accepted,
                   flushed, flushResult, lastCommit, shutHist>>
    /\ UNCHANGED <<payVars, sideVars>>

\* conn.execute_batch("COMMIT"): on success the transaction's rows become
\* visible; on failure SQLite either keeps the transaction open (SQLITE_BUSY)
\* or has rolled it back (SQLITE_FULL, SQLITE_IOERR, ...)
FlushCommit ==
    /\ pcWriter = "commit"
    /\ sqlUse' = UseSql
    /\ \E o \in Outcomes :
         /\ faults' = IF o = "fail" THEN faults + 1 ELSE faults
         /\ batchFault' = (batchFault \/ o = "fail")
         /\ IF o = "ok"
            THEN /\ action_events' =
                        action_events \o SelectSeq(txnRows, IsActionEvent)
                 /\ system_samples' =
                        system_samples \o SelectSeq(txnRows, IsSystemSample)
                 /\ lastCommit' = txnRows
                 /\ flushResult' = "committed"
                 /\ txnRows' = <<>>
                 /\ inTxn' = FALSE
            ELSE /\ UNCHANGED <<action_events, system_samples, lastCommit>>
                 /\ flushResult' = "commit_failed"
                 /\ \E rolledBack \in BOOLEAN :
                      /\ inTxn' = ~rolledBack
                      /\ txnRows' = IF rolledBack THEN <<>> ELSE txnRows
    /\ pcWriter' = "flushed"
    /\ UNCHANGED <<openPc, storeVars, chanVars, batch, idx, exitAfter,
                   connOwner, prodVars, accepted, flushed, failedIdx, shutHist>>
    /\ UNCHANGED <<payVars, sideVars>>

\* flush_batch has returned:  return  (store.rs:158, 171)  or
\* batch.clear() and the next turn of the loop (store.rs:179)
FlushReturn ==
    /\ pcWriter = "flushed"
    /\ IF exitAfter
       THEN WriterReturn
       ELSE /\ batch' = <<>>
            /\ idx' = 0
            /\ pcWriter' = "recv"
            /\ UNCHANGED <<exitAfter, receiverAlive, connOwner, inTxn, txnRows>>
    /\ batchFault' = FALSE
    /\ failedIdx' = {}
    /\ flushResult' = "none"
    /\ lastCommit' = <<>>
    /\ UNCHANGED <<openPc, storeVars, queue, connected, action_events,
                   system_samples, prodVars, faults, accepted, flushed, sqlUse,
                   shutHist>>
    /\ UNCHANGED <<payVars, sideVars>>

Writer ==
    \/ WriterRecv
    \/ WriterDrain
    \/ WriterWait
    \/ FlushBegin
    \/ FlushInsert
    \/ FlushCommit
    \/ FlushReturn

Next ==
    \/ OpenSchema
    \/ OpenSpawn
    \/ submit_action
    \/ submit_system_sample
    \/ shutdown
    \/ Drop
    \/ ShutdownJoin
    \/ WriterRecv
    \/ WriterDrain
    \/ WriterWait
    \/ FlushBegin
    \/ FlushInsert
    \/ FlushCommit
    \/ FlushReturn

Spec == Init /\ [][Next]_vars

\* the behaviours in which no database failure occurs
FairInit == Init /\ workload.faults = 0

\* the writer is an operating-system thread and is always scheduled again;
\* join() returns once the thread has ended
FairSpec ==
    FairInit /\ [][Next]_vars /\ WF_vars(Writer) /\ WF_vars(ShutdownJoin)

\* ---- TelemetryObserver (observer.rs) --------------------------------------
\* the store right after a successful open(): the state record_event, the
\* collector and the reader find it in
StoreReady ==
    /\ openPc = "ready"
    /\ storeAlive = TRUE
    /\ sender = TRUE
    /\ join_handle = TRUE
    /\ callerPc = "idle"
    /\ dropping = FALSE
    /\ queue = <<>>
    /\ connected = TRUE
    /\ receiverAlive = TRUE
    /\ pcWriter = "recv"
    /\ batch = <<>>
    /\ idx = 0
    /\ exitAfter = FALSE
    /\ connOwner = "writer"
    /\ inTxn = FALSE
    /\ txnRows = <<>>
    /\ action_events = <<>>
    /\ system_samples = <<>>
    /\ nAction = 0
    /\ nSample = 0
    /\ faults = 0
    /\ accepted = <<>>
    /\ flushed = <<>>
    /\ batchFault = FALSE
    /\ failedIdx = {}
    /\ flushResult = "none"
    /\ lastCommit = <<>>
    /\ sqlUse = {<<"main", "schema", "main">>}
    /\ sentinels = 0
    /\ sentinelRes = "none"
    /\ joins = 0
    /\ shutdownCalls = 0
    /\ shutdownReturns = 0

SessionId == "test-sess"

\* format!("{}-t{}", self.session_id, n)
turn_id(n) == <<SessionId, "-t", n>>

\* serde_json::to_string(&Vec<String>): the JSON text, token by token
RECURSIVE json_items(_)
json_items(s) ==
    IF s = <<>> THEN <<>>
    ELSE IF Len(s) = 1 THEN <<s[1]>>
    ELSE <<s[1], ",">> \o json_items(Tail(s))

to_json(s) == <<"[">> \o json_items(s) \o <<"]">>

\* the events record_event is called with (those of the observer's tests)
LlmResponse ==
    [kind |-> "LlmResponse", provider |-> "openai", model |-> "gpt-4",
     duration |-> 200, success |-> TRUE, error_message |-> None,
     tokens_in |-> Some(100), tokens_out |-> Some(50)]

ToolCall ==
    [kind |-> "ToolCall", tool |-> "shell", duration |-> 50, success |-> TRUE,
     arguments_hash |-> Some("abc123"), iteration |-> Some(0)]

\* Utc::now() as now_ts() returns it; the model's clock stands still
now_ts == [ts |-> "now", ts_epoch_ms |-> 1]

\* the ActionRecord built at observer.rs:86-107 from the locals l
LlmRecord(e, l) ==
    [ts |-> now_ts.ts, ts_epoch_ms |-> now_ts.ts_epoch_ms,
     session_id |-> SessionId, turn_id |-> l.turn,
     sequence_index |-> l.seq, event_type |-> "llm_response",
     provider |-> Some(e.provider), model |-> Some(e.model),
     tool_name |-> None, tool_type_embedding |-> None,
     arguments_hash |-> None, tool_success |-> Some(e.success),
     duration_ms |-> Some(e.duration), tokens_in |-> e.tokens_in,
     tokens_out |-> e.tokens_out, is_user_initiated |-> l.user_init,
     iteration_index |-> 0, previous_action_type |-> l.prev,
     turn_action_sequence |-> l.action_seq,
     error_message |-> e.error_message]

\* the ActionRecord built at observer.rs:127-148 from the locals l
ToolRecord(e, l) ==
    [ts |-> now_ts.ts, ts_epoch_ms |-> now_ts.ts_epoch_ms,
     session_id |-> SessionId, turn_id |-> l.turn,
     sequence_index |-> l.seq, event_type |-> "tool_call",
     provider |-> None, model |-> None,
     tool_name |-> Some(e.tool), tool_type_embedding |-> None,
     arguments_hash |-> e.arguments_hash, tool_success |-> Some(e.success),
     duration_ms |-> Some(e.duration), tokens_in |-> None,
     tokens_out |-> None, is_user_initiated |-> FALSE,
     iteration_index |-> IF e.iteration = None THEN 0 ELSE e.iteration[1],
     previous_action_type |-> l.prev,
     turn_action_sequence |-> l.action_seq, error_message |-> None]

RecordOf(l) ==
    IF l.ev = "LlmResponse" THEN LlmRecord(LlmResponse, l)
    ELSE ToolRecord(ToolCall, l)

\* the event_type string of an event kind
EventType(ev) == IF ev = "LlmResponse" THEN "llm_response" ELSE "tool_call"

\* record_event calls begun so far: the finished ones and those in progress
EventsBegun ==
    Len(history) + Cardinality({t \in Threads : obsPc[t] # "idle"})

\* thread t may enter record_event
MayCall(t) ==
    /\ t \in workload.threads
    /\ obsPc[t] = "idle"
    /\ EventsBegun < workload.events

Finished(ev, rec) == [ev |-> ev, rec |-> rec]

\* ObserverEvent::AgentStart => *self.is_user_initiated.lock() = true
AgentStart(t) ==
    /\ MayCall(t)
    /\ is_user_initiated' = TRUE
    /\ history' = Append(history, Finished("AgentStart", None))
    /\ starts' = Append(starts, [turn |-> turn_counter,
                                 produced |-> Len(payload)])
    /\ UNCHANGED <<turn_counter, sequence_counter, previous_action_type,
                   turn_action_sequence, obsPc, obsLocal>>
    /\ UNCHANGED <<storeAll, payVars, exported, colVars, entVars>>

\* mutant of OtherEvent: an event of another kind takes a sequence index
OtherEvent_TakesIndex(t) ==
    /\ MayCall(t)
    /\ sequence_counter' = sequence_counter + 1
    /\ history' = Append(history, Finished("Other", None))
    /\ UNCHANGED <<turn_counter, previous_action_type, turn_action_sequence,
                   is_user_initiated, obsPc, obsLocal, starts>>
    /\ UNCHANGED <<storeAll, payVars, exported, colVars, entVars>>

\* _ => {}  every other ObserverEvent
OtherEvent(t) ==
    /\ MayCall(t)
    /\ history' = Append(history, Finished("Other", None))
    /\ UNCHANGED <<sessionVars, obsPc, obsLocal, starts>>
    /\ UNCHANGED <<storeAll, payVars, exported, colVars, entVars>>

\* fn record_metric(&self, _metric): empty body
record_metric(t) ==
    /\ MayCall(t)
    /\ history' = Append(history, Finished("record_metric", None))
    /\ UNCHANGED <<sessionVars, obsPc, obsLocal, starts>>
    /\ UNCHANGED <<storeAll, payVars, exported, colVars, entVars>>

\* fn flush(&self): empty body
flush(t) ==
    /\ MayCall(t)
    /\ history' = Append(history, Finished("flush", None))
    /\ UNCHANGED <<sessionVars, obsPc, obsLocal, starts>>
    /\ UNCHANGED <<storeAll, payVars, exported, colVars, entVars>>

\* mutant of next_sequence: the counter's new value is returned (add_fetch)
next_sequence_NewValue(t, ev) ==
    /\ MayCall(t)
    /\ sequence_counter' = sequence_counter + 1
    /\ obsLocal' = [obsLocal EXCEPT ![t] =
                      [ev |-> ev, seq |-> sequence_counter + 1, prev |-> None,
                       action_seq |-> None, user_init |-> FALSE,
                       turn |-> None]]
    /\ obsPc' = [obsPc EXCEPT ![t] = "prev"]
    /\ UNCHANGED <<turn_counter, previous_action_type, turn_action_sequence,
                   is_user_initiated, history, starts>>
    /\ UNCHANGED <<storeAll, payVars, exported, colVars, entVars>>

\* LlmResponse / ToolCall, first step:
\* let seq = self.next_sequence()  (sequence_counter.fetch_add(1) as i64)
next_sequence(t, ev) ==
    /\ MayCall(t)
    /\ sequence_counter' = sequence_counter + 1
    /\ obsLocal' = [obsLocal EXCEPT ![t] =
                      [ev |-> ev, seq |-> sequence_counter, prev |-> None,
                       action_seq |-> None, user_init |-> FALSE,
                       turn |-> None]]
    /\ obsPc' = [obsPc EXCEPT ![t] = "prev"]
    /\ UNCHANGED <<turn_counter, previous_action_type, turn_action_sequence,
                   is_user_initiated, history, starts>>
    /\ UNCHANGED <<storeAll, payVars, exported, colVars, entVars>>

\* a step of record_event that only reads the session state into a local
ReadStep(t, from, to, local, value) ==
    /\ obsPc[t] = from
    /\ obsLocal' = [obsLocal EXCEPT ![t] = [@ EXCEPT ![local] = value]]
    /\ obsPc' = [obsPc EXCEPT ![t] = to]
    /\ UNCHANGED <<sessionVars, history, starts>>
    /\ UNCHANGED <<storeAll, payVars, exported, colVars, entVars>>

\* let prev = self.previous_action_type.lock().clone()
ReadPrevious(t) ==
    ReadStep(t, "prev", "action_seq", "prev", previous_action_type)

\* mutant of ReadHistory: a ToolCall goes on to read the user-initiated
\* flag, and to clear it, as an LlmResponse does
ReadHistory_ToolReadsFlag(t) ==
    ReadStep(t, "action_seq", "user_init", "action_seq",
             Some(to_json(turn_action_sequence)))

\* let action_seq = serde_json::to_string(&*turn_action_sequence.lock()).ok()
ReadHistory(t) ==
    ReadStep(t, "action_seq",
             IF obsLocal[t].ev = "LlmResponse" THEN "user_init" ELSE "turn",
             "action_seq", Some(to_json(turn_action_sequence)))

\* LlmResponse only: let user_init = *self.is_user_initiated.lock()
ReadUserInit(t) ==
    ReadStep(t, "user_init", "turn", "user_init", is_user_initiated)

\* turn_id: self.turn_id()  (turn_counter.load), in the struct literal
LoadTurn(t) == ReadStep(t, "turn", "record", "turn", turn_id(turn_counter))

\* mutant of record_action: the kind is stored as previous kind but not
\* pushed onto the turn's history
record_action_NoPush(t) ==
    /\ obsPc[t] = "record"
    /\ turn_action_sequence' = turn_action_sequence
    /\ previous_action_type' = Some(EventType(obsLocal[t].ev))
    /\ obsPc' = [obsPc EXCEPT ![t] = "submit"]
    /\ UNCHANGED <<turn_counter, sequence_counter, is_user_initiated,
                   obsLocal, history, starts>>
    /\ UNCHANGED <<storeAll, payVars, exported, colVars, entVars>>

\* mutant of record_action: the kind is pushed and stored only when the queue
\* has room for the record
record_action_IfRoom(t) ==
    /\ obsPc[t] = "record"
    /\ turn_action_sequence' =
         IF Len(queue) < Capacity
         THEN Append(turn_action_sequence, EventType(obsLocal[t].ev))
         ELSE turn_action_sequence
    /\ previous_action_type' =
         IF Len(queue) < Capacity
         THEN Some(EventType(obsLocal[t].ev))
         ELSE previous_action_type
    /\ obsPc' = [obsPc EXCEPT ![t] = "submit"]
    /\ UNCHANGED <<turn_counter, sequence_counter, is_user_initiated,
                   obsLocal, history, starts>>
    /\ UNCHANGED <<storeAll, payVars, exported, colVars, entVars>>

\* record_action, under both locks: seq.push(event_type); *prev = Some(..)
record_action(t) ==
    /\ obsPc[t] = "record"
    /\ turn_action_sequence' =
         Append(turn_action_sequence, EventType(obsLocal[t].ev))
    /\ previous_action_type' = Some(EventType(obsLocal[t].ev))
    /\ obsPc' = [obsPc EXCEPT ![t] = "submit"]
    /\ UNCHANGED <<turn_counter, sequence_counter, is_user_initiated,
                   obsLocal, history, starts>>
    /\ UNCHANGED <<storeAll, payVars, exported, colVars, entVars>>

\* record_action, after the locks: self.store.submit_action(record); a
\* ToolCall, and an LlmResponse that read a clear flag, end here
SubmitRecord(t) ==
    /\ obsPc[t] = "submit"
    /\ SubmitAction(RecordOf(obsLocal[t]))
    /\ IF obsLocal[t].user_init
       THEN /\ obsPc' = [obsPc EXCEPT ![t] = "clear_flag"]
            /\ UNCHANGED <<obsLocal, history>>
       ELSE /\ obsPc' = [obsPc EXCEPT ![t] = "idle"]
            /\ obsLocal' = [obsLocal EXCEPT ![t] = None]
            /\ history' = Append(history,
                 Finished(obsLocal[t].ev, Some(RecordOf(obsLocal[t]))))
    /\ UNCHANGED <<sessionVars, starts, exported, colVars, entVars>>

\* if user_init { *self.is_user_initiated.lock() = false; }
ClearUserInit(t) ==
    /\ obsPc[t] = "clear_flag"
    /\ is_user_initiated' = FALSE
    /\ obsPc' = [obsPc EXCEPT ![t] = "idle"]
    /\ obsLocal' = [obsLocal EXCEPT ![t] = None]
    /\ history' = Append(history,
         Finished(obsLocal[t].ev, Some(RecordOf(obsLocal[t]))))
    /\ UNCHANGED <<turn_counter, sequence_counter, previous_action_type,
                   turn_action_sequence, starts>>
    /\ UNCHANGED <<storeAll, payVars, exported, colVars, entVars>>

\* TurnComplete, first step: self.turn_counter.fetch_add(1); the locals keep
\* what the call found: the turn counter and the number of records submitted
TurnIncrement(t) ==
    /\ MayCall(t)
    /\ turn_counter' = turn_counter + 1
    /\ obsLocal' = [obsLocal EXCEPT ![t] =
                      [ev |-> "TurnComplete", turn0 |-> turn_counter,
                       submitted0 |-> Len(payload)]]
    /\ obsPc' = [obsPc EXCEPT ![t] = "reset_sequence"]
    /\ UNCHANGED <<sequence_counter, previous_action_type,
                   turn_action_sequence, is_user_initiated, history, starts>>
    /\ UNCHANGED <<storeAll, payVars, exported, colVars, entVars>>

\* mutant of SequenceReset: the sequence counter is left as it is
SequenceReset_Keep(t) ==
    /\ obsPc[t] = "reset_sequence"
    /\ sequence_counter' = sequence_counter
    /\ obsPc' = [obsPc EXCEPT ![t] = "reset_previous"]
    /\ UNCHANGED <<turn_counter, previous_action_type, turn_action_sequence,
                   is_user_initiated, obsLocal, history, starts>>
    /\ UNCHANGED <<storeAll, payVars, exported, colVars, entVars>>

\* self.sequence_counter.store(0)
SequenceReset(t) ==
    /\ obsPc[t] = "reset_sequence"
    /\ sequence_counter' = 0
    /\ obsPc' = [obsPc EXCEPT ![t] = "reset_previous"]
    /\ UNCHANGED <<turn_counter, previous_action_type, turn_action_sequence,
                   is_user_initiated, obsLocal, history, starts>>
    /\ UNCHANGED <<storeAll, payVars, exported, colVars, entVars>>

\* *self.previous_action_type.lock() = None
PreviousReset(t) ==
    /\ obsPc[t] = "reset_previous"
    /\ previous_action_type' = None
    /\ obsPc' = [obsPc EXCEPT ![t] = "clear_history"]
    /\ UNCHANGED <<turn_counter, sequence_counter, turn_action_sequence,
                   is_user_initiated, obsLocal, history, starts>>
    /\ UNCHANGED <<storeAll, payVars, exported, colVars, entVars>>

\* self.turn_action_sequence.lock().clear(); TurnComplete ends here
HistoryClear(t) ==
    /\ obsPc[t] = "clear_history"
    /\ turn_action_sequence' = <<>>
    /\ obsPc' = [obsPc EXCEPT ![t] = "idle"]
    /\ obsLocal' = [obsLocal EXCEPT ![t] = None]
    /\ history' = Append(history, Finished("TurnComplete", None))
    /\ UNCHANGED <<turn_counter, sequence_counter, previous_action_type,
                   is_user_initiated, starts>>
    /\ UNCHANGED <<storeAll, payVars, exported, colVars, entVars>>

\* a step of some thread inside record_event
ObsNext ==
    \/ \E t \in Threads : AgentStart(t)
    \/ \E t \in Threads : OtherEvent(t)
    \/ \E t \in Threads : record_metric(t)
    \/ \E t \in Threads : flush(t)
    \/ \E t \in Threads : next_sequence(t, "LlmResponse")
    \/ \E t \in Threads : next_sequence(t, "ToolCall")
    \/ \E t \in Threads : ReadPrevious(t)
    \/ \E t \in Threads : ReadHistory(t)
    \/ \E t \in Threads : ReadUserInit(t)
    \/ \E t \in Threads : LoadTurn(t)
    \/ \E t \in Threads : record_action(t)
    \/ \E t \in Threads : SubmitRecord(t)
    \/ \E t \in Threads : ClearUserInit(t)
    \/ \E t \in Threads : TurnIncrement(t)
    \/ \E t \in Threads : SequenceReset(t)
    \/ \E t \in Threads : PreviousReset(t)
    \/ \E t \in Threads : HistoryClear(t)

\* the calls an observer workload explores: events record_event calls made by
\* the given threads
ObsWorkload(events, threads) ==
    [actions |-> events, samples |-> 0, faults |-> 0, events |-> events,
     threads |-> threads]

\* the store is open, the observer new; nothing else runs
ObsStart ==
    /\ StoreReady
    /\ payload = <<>>
    /\ samplePayload = <<>>
    /\ ObserverNew
    /\ exported = None
    /\ CollectorUnstarted
    /\ EntropyIdle

\* calls of record_event made one after another, by one thread
SeqObsInit == ObsStart /\ workload = ObsWorkload(MaxSeqEvents, {1})

SeqObsSpec == SeqObsInit /\ [][ObsNext]_vars

\* calls of record_event made concurrently by the threads of Threads
ObsInit == ObsStart /\ workload = ObsWorkload(MaxEvents, Threads)

ObsSpec == ObsInit /\ [][ObsNext]_vars

\* ---- SQLite values, insert_action / insert_system_sample ------------------
\* a value as SQLite stores it: NULL, INTEGER, REAL, TEXT or BLOB
SqlNull == <<"null">>
SqlInteger(n) == <<"integer", n>>
SqlReal(x) == <<"real", x>>
SqlText(s) == <<"text", s>>
SqlBlob(b) == <<"blob", b>>

\* rusqlite's ToSql for Option<T>: None binds NULL, Some(x) binds x
OptionToSql(o, type) == IF o = None THEN SqlNull ELSE <<type, o[1]>>

\* |b| if b { 1 } else { 0 }  and  i32::from(bool)
BoolToInt(b) == IF b THEN 1 ELSE 0

\* |v| v != 0
IntToBool(v) == v # 0

\* r.tool_success.map(|b| if b { 1 } else { 0 })
MapBoolToInt(o) == IF o = None THEN None ELSE Some(BoolToInt(o[1]))

\* row.get::<_, Option<i32>>(10)?.map(|v| v != 0)
MapIntToBool(o) == IF o = None THEN None ELSE Some(IntToBool(o[1]))

\* the column list of INSERT INTO action_events
InsertActionColumns ==
    <<"ts", "ts_epoch_ms", "session_id", "turn_id", "sequence_index",
      "event_type", "provider", "model", "tool_name",
      "tool_type_embedding", "arguments_hash", "tool_success",
      "duration_ms", "tokens_in", "tokens_out", "is_user_initiated",
      "iteration_index", "previous_action_type", "turn_action_sequence",
      "error_message">>

\* mutant of InsertActionParams: tokens_out and tokens_in are bound in the
\* other order
InsertActionParams_Swapped(r) ==
    <<SqlText(r.ts), SqlInteger(r.ts_epoch_ms), SqlText(r.session_id),
      SqlText(r.turn_id), SqlInteger(r.sequence_index),
      SqlText(r.event_type), OptionToSql(r.provider, "text"),
      OptionToSql(r.model, "text"), OptionToSql(r.tool_name, "text"),
      OptionToSql(r.tool_type_embedding, "blob"),
      OptionToSql(r.arguments_hash, "text"),
      OptionToSql(MapBoolToInt(r.tool_success), "integer"),
      OptionToSql(r.duration_ms, "integer"),
      OptionToSql(r.tokens_out, "integer"),
      OptionToSql(r.tokens_in, "integer"),
      SqlInteger(BoolToInt(r.is_user_initiated)),
      SqlInteger(r.iteration_index),
      OptionToSql(r.previous_action_type, "text"),
      OptionToSql(r.turn_action_sequence, "text"),
      OptionToSql(r.error_message, "text")>>

\* rusqlite::params![...] of insert_action: the values bound to ?1 .. ?20
InsertActionParams(r) ==
    <<SqlText(r.ts), SqlInteger(r.ts_epoch_ms), SqlText(r.session_id),
      SqlText(r.turn_id), SqlInteger(r.sequence_index),
      SqlText(r.event_type), OptionToSql(r.provider, "text"),
      OptionToSql(r.model, "text"), OptionToSql(r.tool_name, "text"),
      OptionToSql(r.tool_type_embedding, "blob"),
      OptionToSql(r.arguments_hash, "text"),
      OptionToSql(MapBoolToInt(r.tool_success), "integer"),
      OptionToSql(r.duration_ms, "integer"),
      OptionToSql(r.tokens_in, "integer"),
      OptionToSql(r.tokens_out, "integer"),
      SqlInteger(BoolToInt(r.is_user_initiated)),
      SqlInteger(r.iteration_index),
      OptionToSql(r.previous_action_type, "text"),
      OptionToSql(r.turn_action_sequence, "text"),
      OptionToSql(r.error_message, "text")>>

\* the row an INSERT stores: the i-th value goes to the i-th column named
RowOf(columns, params) ==
    [c \in Range(columns) |->
       params[CHOOSE i \in 1..Len(columns) : columns[i] = c]]

\* the row insert_action(conn, r) adds to action_events
insert_action(r) == RowOf(InsertActionColumns, InsertActionParams(r))

\* the column list of INSERT INTO system_samples
InsertSampleColumns ==
    <<"ts", "ts_epoch_ms", "cpu_usage_pct", "memory_used_bytes",
      "memory_total_bytes", "process_count", "process_spawn_rate",
      "file_read_bytes", "file_write_bytes", "net_connections",
      "dest_ip_entropy", "syscall_freq_json">>

\* rusqlite::params![...] of insert_system_sample
InsertSampleParams(s) ==
    <<SqlText(s.ts), SqlInteger(s.ts_epoch_ms), SqlReal(s.cpu_usage_pct),
      SqlInteger(s.memory_used_bytes), SqlInteger(s.memory_total_bytes),
      SqlInteger(s.process_count), SqlInteger(s.process_spawn_rate),
      SqlInteger(s.file_read_bytes), SqlInteger(s.file_write_bytes),
      SqlInteger(s.net_connections), SqlReal(s.dest_ip_entropy),
      OptionToSql(s.syscall_freq_json, "text")>>

\* the row insert_system_sample(conn, s) adds to system_samples
insert_system_sample(s) == RowOf(InsertSampleColumns, InsertSampleParams(s))

\* the committed rows of the two tables, in rowid order, as a reader's
\* connection sees them
ActionRows ==
    [i \in 1..Len(action_events) |->
       insert_action(payload[action_events[i].id])]

SampleRows ==
    [i \in 1..Len(system_samples) |->
       insert_system_sample(samplePayload[system_samples[i].id])]

\* ---- TelemetryReader (reader.rs) ------------------------------------------
\* rusqlite's FromSql, as row.get::<_, T>() applies it to a stored value
FromSqlValue(v, type) ==
    IF v[1] = type THEN v[2] ELSE "InvalidColumnType"

FromSqlOption(v, type) ==
    IF v = SqlNull THEN None ELSE Some(FromSqlValue(v, type))

\* the select list of export_action_events: row.get(i) reads the value of
\* the column at position i + 1
SelectActionColumns ==
    <<"ts", "ts_epoch_ms", "session_id", "turn_id", "sequence_index",
      "event_type", "provider", "model", "tool_name", "arguments_hash",
      "tool_success", "duration_ms", "tokens_in", "tokens_out",
      "is_user_initiated", "iteration_index", "previous_action_type",
      "turn_action_sequence", "error_message">>

Get(row, columns, i) == row[columns[i + 1]]

\* the closure of query_map in export_action_events: Ok(ActionEventRow{..})
ActionEventRow(row) ==
    LET G(i) == Get(row, SelectActionColumns, i) IN
    [ts |-> FromSqlValue(G(0), "text"),
     ts_epoch_ms |-> FromSqlValue(G(1), "integer"),
     session_id |-> FromSqlValue(G(2), "text"),
     turn_id |-> FromSqlValue(G(3), "text"),
     sequence_index |-> FromSqlValue(G(4), "integer"),
     event_type |-> FromSqlValue(G(5), "text"),
     provider |-> FromSqlOption(G(6), "text"),
     model |-> FromSqlOption(G(7), "text"),
     tool_name |-> FromSqlOption(G(8), "text"),
     arguments_hash |-> FromSqlOption(G(9), "text"),
     tool_success |-> MapIntToBool(FromSqlOption(G(10), "integer")),
     duration_ms |-> FromSqlOption(G(11), "integer"),
     tokens_in |-> FromSqlOption(G(12), "integer"),
     tokens_out |-> FromSqlOption(G(13), "integer"),
     is_user_initiated |-> IntToBool(FromSqlValue(G(14), "integer")),
     iteration_index |-> FromSqlValue(G(15), "integer"),
     previous_action_type |-> FromSqlOption(G(16), "text"),
     turn_action_sequence |-> FromSqlOption(G(17), "text"),
     error_message |-> FromSqlOption(G(18), "text")]

\* the select list of export_system_samples
SelectSampleColumns ==
    <<"ts", "ts_epoch_ms", "cpu_usage_pct", "memory_used_bytes",
      "memory_total_bytes", "process_count", "process_spawn_rate",
      "file_read_bytes", "file_write_bytes", "net_connections",
      "dest_ip_entropy", "syscall_freq_json">>

\* the closure of query_map in export_system_samples
SystemSampleRow(row) ==
    LET G(i) == Get(row, SelectSampleColumns, i) IN
    [ts |-> FromSqlValue(G(0), "text"),
     ts_epoch_ms |-> FromSqlValue(G(1), "integer"),
     cpu_usage_pct |-> FromSqlValue(G(2), "real"),
     memory_used_bytes |-> FromSqlValue(G(3), "integer"),
     memory_total_bytes |-> FromSqlValue(G(4), "integer"),
     process_count |-> FromSqlValue(G(5), "integer"),
     process_spawn_rate |-> FromSqlValue(G(6), "integer"),
     file_read_bytes |-> FromSqlValue(G(7), "integer"),
     file_write_bytes |-> FromSqlValue(G(8), "integer"),
     net_connections |-> FromSqlValue(G(9), "integer"),
     dest_ip_entropy |-> FromSqlValue(G(10), "real"),
     syscall_freq_json |-> FromSqlOption(G(11), "text")]

\* ts_epoch_ms of a stored row
EpochOf(row) == row["ts_epoch_ms"][2]

\* mutant of Where: the comparison is strict
Where_Strict(rows, since) == {i \in 1..Len(rows) : EpochOf(rows[i]) > since}

\* WHERE ts_epoch_ms >= ?1: the rowids of the rows that qualify
Where(rows, since) == {i \in 1..Len(rows) : EpochOf(rows[i]) >= since}

\* ORDER BY ts_epoch_ms ASC: the orders SQLite may return the rows ids in
\* (rows with equal keys come in an order the query does not fix)
OrderBy(rows, ids) ==
    {p \in [1..Cardinality(ids) -> ids] :
        /\ \A i, j \in 1..Cardinality(ids) : i # j => p[i] # p[j]
        /\ \A i \in 1..(Cardinality(ids) - 1) :
             EpochOf(rows[p[i]]) <= EpochOf(rows[p[i + 1]])}

\* LIMIT ?2: the first `limit` rows of the ordered result
Limit(p, limit) == SubSeq(p, 1, IF Len(p) < limit THEN Len(p) ELSE limit)

\* the SELECT of both export functions on the stored rows: the rowids of the
\* result, in result order;  since = since_epoch_ms.unwrap_or(0)
Select(rows, since_epoch_ms, limit) ==
    LET since == IF since_epoch_ms = None THEN 0 ELSE since_epoch_ms[1]
    IN {Limit(p, limit) : p \in OrderBy(rows, Where(rows, since))}

\* the arguments the export functions are called with
SinceArgs == {None} \cup {Some(b) : b \in (-1)..MaxEpoch}
LimitArgs == 1..MaxLimit

\* the result of an export call, with the arguments it was made with and the
\* rowids the returned rows were read from
Export(table, since_epoch_ms, limit, ids, result) ==
    [table |-> table, since_epoch_ms |-> since_epoch_ms, limit |-> limit,
     ids |-> ids, rows |-> result]

\* TelemetryReader::export_action_events(since_epoch_ms, limit)
export_action_events ==
    /\ \E since_epoch_ms \in SinceArgs, limit \in LimitArgs :
         \E ids \in Select(ActionRows, since_epoch_ms, limit) :
            exported' = Some(Export("action_events", since_epoch_ms, limit,
                                    ids, [i \in 1..Len(ids) |->
                                       ActionEventRow(ActionRows[ids[i]])]))
    /\ UNCHANGED <<storeAll, payVars, obsVars, colVars, entVars>>

\* TelemetryReader::export_system_samples(since_epoch_ms, limit)
export_system_samples ==
    /\ \E since_epoch_ms \in SinceArgs, limit \in LimitArgs :
         \E ids \in Select(SampleRows, since_epoch_ms, limit) :
            exported' = Some(Export("system_samples", since_epoch_ms, limit,
                                    ids, [i \in 1..Len(ids) |->
                                       SystemSampleRow(SampleRows[ids[i]])]))
    /\ UNCHANGED <<storeAll, payVars, obsVars, colVars, entVars>>

\* the ActionRecords the reader's workload submits: the record of
\* reader_exports_action_events, a record of reader_filters_by_since, a
\* failed tool call with every optional field present, and a record with
\* every optional field absent
ExportRecords ==
    { [make_action_record EXCEPT !.ts_epoch_ms = 1,
         !.turn_action_sequence = None],
      [make_action_record EXCEPT !.ts_epoch_ms = 1,
         !.event_type = "tool_call", !.provider = None, !.model = None,
         !.tool_name = Some("shell"), !.tool_success = Some(TRUE),
         !.duration_ms = Some(10), !.tokens_in = None, !.tokens_out = None,
         !.is_user_initiated = FALSE, !.turn_action_sequence = None],
      [make_action_record EXCEPT !.ts_epoch_ms = -1,
         !.event_type = "tool_call", !.tool_name = Some("shell"),
         !.tool_type_embedding = Some(<<1, 2>>),
         !.arguments_hash = Some("abc123"), !.tool_success = Some(FALSE),
         !.is_user_initiated = FALSE, !.iteration_index = 2,
         !.sequence_index = 1,
         !.previous_action_type = Some("llm_response"),
         !.error_message = Some("failed")],
      [make_action_record EXCEPT !.ts_epoch_ms = MaxEpoch,
         !.provider = None, !.model = None, !.duration_ms = None,
         !.tokens_in = None, !.tokens_out = None,
         !.is_user_initiated = FALSE, !.turn_action_sequence = None] }

\* the SystemSamples the reader's workload submits
ExportSamples ==
    { [make_system_sample EXCEPT !.ts_epoch_ms = 1],
      [make_system_sample EXCEPT !.ts_epoch_ms = MaxEpoch,
         !.syscall_freq_json = Some("{}")] }

\* the workloads explored with a reader: records of one table or the other,
\* and records of one kind with one database failure
ExportWorkloads ==
    { [actions |-> MaxExportRows, samples |-> 0, faults |-> 0,
       records |-> ExportRecords, sysrecs |-> {}],
      [actions |-> MaxExportRows, samples |-> 0, faults |-> 1,
       records |-> {make_action_record}, sysrecs |-> {}],
      [actions |-> 0, samples |-> MaxExportRows, faults |-> 0,
       records |-> {}, sysrecs |-> ExportSamples] }

\* a submit_action call of the store's owner, with one of the workload's
\* records
submit_record ==
    /\ \E record \in workload.records : SubmitAction(record)
    /\ UNCHANGED sideVars

\* a submit_system_sample call of the store's owner, with one of the
\* workload's samples
submit_sample ==
    /\ \E sample \in workload.sysrecs : SubmitSystemSample(sample)
    /\ UNCHANGED sideVars

\* the store is open; its owner submits records while the writer persists
\* them and a reader exports
ReaderInit ==
    /\ StoreReady
    /\ workload \in ExportWorkloads
    /\ payload = <<>>
    /\ samplePayload = <<>>
    /\ ObserverNew
    /\ exported = None
    /\ CollectorUnstarted
    /\ EntropyIdle

\* a behaviour is followed up to the export the reader makes
ReaderNext ==
    \/ exported = None /\ submit_record
    \/ exported = None /\ submit_sample
    \/ exported = None /\ WriterRecv
    \/ exported = None /\ WriterDrain
    \/ exported = None /\ WriterWait
    \/ exported = None /\ FlushBegin
    \/ exported = None /\ FlushInsert
    \/ exported = None /\ FlushCommit
    \/ exported = None /\ FlushReturn
    \/ exported = None /\ export_action_events
    \/ exported = None /\ export_system_samples

ReaderSpec == ReaderInit /\ [][ReaderNext]_vars

\* ---- shannon_entropy (collector.rs) ---------------------------------------
\* Real numbers are kept exact: a value is (SUM over the primes p of
\* num[p] * log2(p)) / den, with den > 0 and no common divisor (the numbers
\* log2(p) are linearly independent over the rationals, so equal values have
\* equal representations). Rounding of f64 is not part of the model.
Primes == {2, 3, 5, 7}

RECURSIVE Gcd(_, _)
Gcd(a, b) == IF b = 0 THEN a ELSE Gcd(b, a % b)

Abs(a) == IF a < 0 THEN -a ELSE a

RECURSIVE GcdOf(_, _)
GcdOf(ps, v) ==
    IF ps = {} THEN 0
    ELSE LET p == CHOOSE q \in ps : TRUE
         IN Gcd(Abs(v[p]), GcdOf(ps \ {p}, v))

Normalize(x) ==
    LET g == Gcd(x.den, GcdOf(Primes, x.num))
    IN [num |-> [p \in Primes |-> x.num[p] \div g], den |-> x.den \div g]

\* 0.0
Zero == [num |-> [p \in Primes |-> 0], den |-> 1]

\* the exponent of the prime p in n
RECURSIVE Exponent(_, _)
Exponent(n, p) == IF n % p = 0 THEN 1 + Exponent(n \div p, p) ELSE 0

\* log2(n) for a whole number n >= 1 (with prime factors in Primes)
Log2(n) == [num |-> [p \in Primes |-> Exponent(n, p)], den |-> 1]

\* p * p.log2()  for  p = count as f64 / total
PLog2P(count, total) ==
    Normalize([num |-> [p \in Primes |->
                          count * (Exponent(count, p) - Exponent(total, p))],
               den |-> total])

\* mutant of Accumulate: entropy += term
Accumulate_Add(x, y) ==
    Normalize([num |-> [p \in Primes |-> x.num[p] * y.den + y.num[p] * x.den],
               den |-> x.den * y.den])

\* entropy -= term
Accumulate(x, y) ==
    Normalize([num |-> [p \in Primes |-> x.num[p] * y.den - y.num[p] * x.den],
               den |-> x.den * y.den])

\* for &count in counts.values() { .. }  over the keys not yet visited
RECURSIVE EntropyLoop(_, _, _, _)
EntropyLoop(keys, count, total, acc) ==
    IF keys = {} THEN acc
    ELSE LET k == CHOOSE x \in keys : TRUE
         IN EntropyLoop(keys \ {k}, count, total,
                        IF count[k] > 0
                        THEN Accumulate(acc, PLog2P(count[k], total))
                        ELSE acc)

\* shannon_entropy(values)
shannon_entropy(vals) ==
    IF vals = <<>> THEN Zero
    ELSE LET count == [k \in Range(vals) |->
                         Cardinality({i \in 1..Len(vals) : vals[i] = k})]
         IN EntropyLoop(Range(vals), count, Len(vals), Zero)

\* the destination addresses read_net_connections may find
IpAddresses == {"0100007F", "0200007F", "0300007F", "0400007F"}

RECURSIVE SeqsUpTo(_, _)
SeqsUpTo(S, n) ==
    IF n = 0 THEN {<<>>}
    ELSE LET shorter == SeqsUpTo(S, n - 1)
         IN shorter \cup {Append(s, x) : s \in shorter, x \in S}

\* shannon_entropy is called with some addresses
EntropyInit ==
    /\ StoreReady
    /\ workload = Workload(0, 0, 0)
    /\ payload = <<>>
    /\ samplePayload = <<>>
    /\ ObserverNew
    /\ exported = None
    /\ CollectorUnstarted
    /\ values \in SeqsUpTo(IpAddresses, MaxIps)
    /\ entropy = None

\* the call returns
EntropyReturn ==
    /\ entropy = None
    /\ entropy' = Some(shannon_entropy(values))
    /\ UNCHANGED <<values, storeAll, payVars, obsVars, exported, colVars>>

\* the next call, with other addresses
EntropyCall ==
    /\ entropy # None
    /\ values' \in SeqsUpTo(IpAddresses, MaxIps)
    /\ entropy' = None
    /\ UNCHANGED <<storeAll, payVars, obsVars, exported, colVars>>

EntropyNext ==
    \/ EntropyReturn
    \/ EntropyCall

EntropySpec == EntropyInit /\ [][EntropyNext]_vars

\* ---- run_system_collector (collector.rs) ----------------------------------
\* the values a raw counter may show when it is read
Raw == 0..MaxRaw

\* mutant of Delta: the difference is not clamped
Delta_Signed(current, previous) == current - previous

\* (current - previous).max(0)
Delta(current, previous) ==
    IF current - previous > 0 THEN current - previous ELSE 0

\* what one iteration reads from sysinfo and /proc; io and dest_ips are read
\* on Linux only
Reading(process_count, io, dest_ips) ==
    [process_count |-> process_count, io |-> io, dest_ips |-> dest_ips]

\* the SystemSample one iteration builds from its reading r
SampleOf(r) ==
    [ts |-> "now", ts_epoch_ms |-> 1, cpu_usage_pct |-> "cpu",
     memory_used_bytes |-> 1000000, memory_total_bytes |-> 8000000,
     process_count |-> r.process_count,
     process_spawn_rate |-> Delta(r.process_count, prev_process_count),
     file_read_bytes |->
        IF target_os = "linux" THEN Delta(r.io[1], prev_io[1]) ELSE 0,
     file_write_bytes |->
        IF target_os = "linux" THEN Delta(r.io[2], prev_io[2]) ELSE 0,
     net_connections |->
        IF target_os = "linux" THEN Len(r.dest_ips) ELSE 0,
     dest_ip_entropy |->
        IF target_os = "linux" THEN shannon_entropy(r.dest_ips) ELSE Zero,
     syscall_freq_json |-> None]

\* the store is open and the collector task is spawned on it, in a Linux
\* build or another one
CollectorInit ==
    /\ StoreReady
    /\ workload = Workload(0, MaxTicks, 0)
    /\ payload = <<>>
    /\ samplePayload = <<>>
    /\ ObserverNew
    /\ exported = None
    /\ colPc = "unstarted"
    /\ target_os \in {"linux", "other"}
    /\ prev_process_count = 0
    /\ prev_io = <<0, 0>>
    /\ readings = <<>>
    /\ EntropyIdle

\* sys.refresh_all(); prev_process_count = ..; prev_io = read_proc_self_io()
CollectorBaseline ==
    /\ colPc = "unstarted"
    /\ \E process_count \in Raw, io \in Raw \X Raw :
         /\ prev_process_count' = process_count
         /\ prev_io' = IF target_os = "linux" THEN io ELSE prev_io
         /\ readings' = <<Reading(process_count, prev_io', <<>>)>>
    /\ colPc' = "running"
    /\ UNCHANGED <<target_os, storeAll, payVars, obsVars, exported, entVars>>

\* one iteration of the loop, after the sleep: refresh, deltas, submit
CollectorTick ==
    /\ colPc = "running"
    /\ \E process_count \in Raw, io \in Raw \X Raw :
         LET r == Reading(process_count,
                          IF target_os = "linux" THEN io ELSE prev_io,
                          IF target_os = "linux"
                          THEN <<"0100007F", "0200007F">> ELSE <<>>)
         IN /\ SubmitSystemSample(SampleOf(r))
            /\ prev_process_count' = r.process_count
            /\ prev_io' = r.io
            /\ readings' = Append(readings, r)
    /\ UNCHANGED <<colPc, target_os, obsVars, exported, entVars>>

CollectorNext ==
    \/ CollectorBaseline
    \/ CollectorTick

CollectorSpec == CollectorInit /\ [][CollectorNext]_vars

\* ---- properties ----------------------------------------------------------
\* the table a record is inserted into
TableOf(r) == IF IsActionEvent(r) THEN action_events ELSE system_samples

\* number of committed rows holding record r
Persisted(r) == Occurrences(TableOf(r), r)

\* the submit calls made so far
Submitted == nAction + nSample

\* the store is open and its owner is not inside a call
CallerFree == openPc = "ready" /\ storeAlive /\ callerPc = "idle"

\* a step of one of the two submit operations
SubmitStep == submit_action \/ submit_system_sample

\* C1: in the behaviours without database failure (FairSpec), every record
\* the queue accepted is eventually committed as exactly one row of its table
\* (again and again the writer reaches a state where all records accepted so
\* far are committed); no record is ever committed twice, and only accepted
\* records are committed.
C1_AcceptedPersistedOnce ==
    /\ [](faults = 0)
    /\ [](\A r \in AllRecords :
            /\ Persisted(r) <= 1
            /\ Persisted(r) = 1 => r \in Range(accepted))
    /\ []<>(\A r \in Range(accepted) : Persisted(r) = 1)

\* C1 witness: with no failure and no shutdown, several accepted records are
\* all committed once while a further record has been submitted after them
C1_Witness ==
    /\ faults = 0
    /\ shutdownCalls = 0
    /\ Len(accepted) >= 3
    /\ \A r \in Range(accepted) : Persisted(r) = 1
    /\ Len(action_events) >= 1 /\ Len(system_samples) >= 1

\* C2: whenever the owner of the store is free to call it, submit_action and
\* submit_system_sample can take their step at once, whatever the state of
\* the queue, of the writer and of the shutdown.
C2_SubmitNeverBlocks ==
    CallerFree =>
        /\ nAction < workload.actions => ENABLED submit_action
        /\ nSample < workload.samples => ENABLED submit_system_sample

\* C2 witness: submit calls have returned although the queue was full and the
\* writer was in the middle of a flush that a database failure had hit
C2_Witness ==
    /\ CallerFree /\ sender
    /\ Len(queue) = Capacity
    /\ Submitted > Len(accepted)
    /\ pcWriter = "commit" /\ batchFault

\* C3: a submit that finds the queue at capacity leaves the queue, and the
\* records accepted so far, exactly as they were: the submitted record is the
\* one discarded.
C3_NewestDropped ==
    [][(SubmitStep /\ sender /\ Len(queue) >= Capacity)
          => (queue' = queue /\ accepted' = accepted /\ batch' = batch)]_vars

\* C3 witness: a record was discarded at a full queue, which still holds the
\* records accepted last, oldest first
C3_Witness ==
    /\ sender
    /\ Len(queue) = Capacity
    /\ Submitted > Len(accepted)
    /\ queue = SubSeq(accepted, Len(accepted) - Capacity + 1, Len(accepted))

\* ids grow along s
Increasing(s) == \A i, j \in 1..Len(s) : i < j => s[i].id < s[j].id

\* C4: the rows of one producer are inserted in the order in which that
\* producer submitted them (a producer's ids grow with its submissions).
C4_ProducerOrder ==
    /\ Increasing(action_events)
    /\ Increasing(system_samples)
    /\ Increasing(SelectSeq(txnRows, IsActionEvent))
    /\ Increasing(SelectSeq(txnRows, IsSystemSample))

\* C4 witness: a COMMIT has just added a row of a producer behind a row of
\* that producer that an earlier batch committed
C4_Witness ==
    /\ flushResult = "committed"
    /\ \E i \in 1..Len(action_events), j \in 1..Len(lastCommit) :
         /\ action_events[i] \notin Range(lastCommit)
         /\ IsActionEvent(lastCommit[j])
         /\ action_events[i].id < lastCommit[j].id

\* C5: once shutdown() has returned the writer thread has ended, no record is
\* left in the queue or in the batch, every accepted record has been handed
\* to flush_batch, and without database failure each is committed.
C5_ShutdownFlushes ==
    shutdownReturns > 0 =>
        /\ pcWriter = "done"
        /\ Range(queue) \cap AllRecords = {}
        /\ batch = <<>>
        /\ Range(accepted) \subseteq Range(flushed)
        /\ faults = 0 => \A r \in Range(accepted) : Persisted(r) = 1

\* C5 witness: shutdown() has returned after a call made while the queue was
\* full, so that the sentinel could not be enqueued
C5_Witness ==
    /\ shutdownReturns = 1
    /\ sentinelRes = "Full"
    /\ faults = 0
    /\ Len(accepted) > Capacity
    /\ \A r \in Range(accepted) : Persisted(r) = 1

\* a step of shutdown(), called explicitly or by Drop
ShutdownStep == shutdown \/ Drop

\* C6: a shutdown() made after one has returned returns in the same step,
\* sends no sentinel, joins nothing and changes neither the queue nor the
\* writer nor the committed rows; no second sentinel or join ever happens,
\* and the committed rows never change after the first shutdown returned.
C6_ShutdownIdempotent ==
    /\ [](sentinels <= 1 /\ joins <= 1)
    /\ [][(ShutdownStep /\ shutdownReturns > 0)
            => /\ callerPc' = "idle"
               /\ shutdownReturns' = shutdownReturns + 1
               /\ UNCHANGED <<sentinels, joins, chanVars, writerVars,
                               dbVars>>]_vars
    /\ [][shutdownReturns > 0
            => UNCHANGED <<action_events, system_samples>>]_vars

\* C6 witness: an explicit shutdown() and then the one made by Drop have both
\* returned, and the rows the first one flushed are there
C6_Witness ==
    /\ shutdownReturns = 2
    /\ ~storeAlive
    /\ sentinels = 1 /\ joins = 1
    /\ accepted # <<>>
    /\ faults = 0
    /\ \A r \in Range(accepted) : Persisted(r) = 1

\* the ops held anywhere between submit and the tables
Held ==
    Range(queue) \cup Range(batch) \cup Range(txnRows)
        \cup Range(action_events) \cup Range(system_samples)

\* C7: once shutdown() has been called the sender is gone and a submit changes
\* nothing: the record is not accepted, and only accepted records are ever in
\* the queue, in a batch or in a table.
C7_SubmitAfterShutdown ==
    /\ [](shutdownCalls > 0 => ~sender)
    /\ [](Held \subseteq Range(accepted) \cup {Shutdown})
    /\ [][shutdownCalls > 0 => accepted' = accepted]_vars
    /\ [][(SubmitStep /\ shutdownCalls > 0)
            => UNCHANGED <<storeVars, chanVars, writerVars, dbVars>>]_vars

\* C7 witness: a record was submitted after shutdown() and went nowhere
C7_Witness ==
    /\ openPc = "ready" /\ ~sender /\ storeAlive
    /\ shutdownReturns = 1
    /\ nAction > 0
    /\ accepted = <<>>
    /\ action_events = <<>>

\* C8: every SQL call is made by the context that holds the connection; the
\* caller of open() makes its calls before the writer thread exists, and from
\* then on the writer thread holds the connection and makes every call.
C8_SingleWriter ==
    /\ \A u \in sqlUse :
         /\ u[3] = u[1]
         /\ u[1] = "main" => u[2] = "schema"
         /\ u[2] = "ready" => u[1] = "writer"
    /\ pcWriter \notin {"unstarted", "done"} => connOwner = "writer"
    /\ pcWriter = "unstarted" => connOwner # "writer"

\* C8 witness: the schema was set up by the caller of open() and rows were
\* then committed by the writer thread
C8_Witness ==
    /\ \E u, v \in sqlUse : u[1] = "main" /\ v[1] = "writer"
    /\ Len(action_events) >= 1

\* the first n items of the batch without those whose INSERT failed
RECURSIVE SurvivorsUpTo(_)
SurvivorsUpTo(n) ==
    IF n = 0 THEN <<>>
    ELSE IF n \in failedIdx THEN SurvivorsUpTo(n - 1)
    ELSE Append(SurvivorsUpTo(n - 1), batch[n])

\* s ends with t
EndsWith(s, t) ==
    Len(t) <= Len(s) /\ SubSeq(s, Len(s) - Len(t) + 1, Len(s)) = t

\* C9: in a flush whose BEGIN succeeded the INSERT of every item is attempted
\* whatever failed before it, the transaction holds exactly the items whose
\* INSERT succeeded, COMMIT is attempted, and a successful COMMIT commits
\* exactly those items.
C9_InsertFailureIsolated ==
    /\ pcWriter = "insert" => inTxn /\ txnRows = SurvivorsUpTo(idx - 1)
    /\ pcWriter = "commit" => inTxn /\ txnRows = SurvivorsUpTo(Len(batch))
    /\ (pcWriter = "flushed" /\ flushResult \notin {"begin_failed", "empty"})
         => /\ idx = Len(batch) + 1
            /\ flushResult \in {"committed", "commit_failed"}
    /\ flushResult = "committed"
         => /\ lastCommit = SurvivorsUpTo(Len(batch))
            /\ EndsWith(action_events, SelectSeq(lastCommit, IsActionEvent))
            /\ EndsWith(system_samples, SelectSeq(lastCommit, IsSystemSample))

\* C9 witness: a batch of three was committed whose second INSERT failed
C9_Witness ==
    /\ flushResult = "committed"
    /\ Len(batch) = 3
    /\ failedIdx = {2}
    /\ lastCommit = <<batch[1], batch[3]>>

\* C10 (as claimed): a flush that no database failure hits runs in its own
\* transaction and commits its whole batch, whatever happened to the batches
\* before it.
C10_FailureConfined ==
    (pcWriter = "flushed" /\ ~batchFault /\ batch # <<>>)
        => (flushResult = "committed" /\ lastCommit = batch)

\* ---- properties of the observer -------------------------------------------
\* no thread is inside record_event
AllIdle == \A t \in Threads : obsPc[t] = "idle"

\* the finished call at position i of the history produced a record
Produced(i) == history[i].rec # None

\* position of the latest TurnComplete finished before call i, 0 if none
LastTurnComplete(i) ==
    LET tc == {j \in 1..(i - 1) : history[j].ev = "TurnComplete"}
    IN IF tc = {} THEN 0 ELSE CHOOSE j \in tc : \A k \in tc : k <= j

\* the records of the finished calls, in the order the calls finished
RECURSIVE RecordsOf(_)
RecordsOf(h) ==
    IF h = <<>> THEN <<>>
    ELSE IF Head(h).rec = None THEN RecordsOf(Tail(h))
    ELSE <<Head(h).rec[1]>> \o RecordsOf(Tail(h))

\* the session state of the observer
SessionState ==
    [turn |-> turn_counter, seq |-> sequence_counter,
     prev |-> previous_action_type, hist |-> turn_action_sequence,
     flag |-> is_user_initiated]

\* the session state TelemetryObserver::new builds
NewSession ==
    [turn |-> 0, seq |-> 0, prev |-> None, hist |-> <<>>, flag |-> FALSE]

\* record_event(ev) run alone on session state st: the state it leaves and
\* the record it submits
Serial(st, ev) ==
    CASE ev = "AgentStart" ->
           [st |-> [st EXCEPT !.flag = TRUE], rec |-> None]
      [] ev = "TurnComplete" ->
           [st |-> [st EXCEPT !.turn = @ + 1, !.seq = 0, !.prev = None,
                              !.hist = <<>>],
            rec |-> None]
      [] ev \in {"LlmResponse", "ToolCall"} ->
           [st |-> [st EXCEPT !.seq = @ + 1,
                              !.prev = Some(EventType(ev)),
                              !.hist = Append(@, EventType(ev)),
                              !.flag = IF ev = "LlmResponse" THEN FALSE
                                       ELSE @],
            rec |-> Some(RecordOf(
                      [ev |-> ev, seq |-> st.seq, prev |-> st.prev,
                       action_seq |-> Some(to_json(st.hist)),
                       user_init |-> (ev = "LlmResponse" /\ st.flag),
                       turn |-> turn_id(st.turn)]))]
      [] OTHER -> [st |-> st, rec |-> None]

\* running the finished calls alone, one after another in the given order,
\* from session state st gives each call the record it produced and ends in
\* the present session state
RECURSIVE SerialRunMatches(_, _)
SerialRunMatches(order, st) ==
    IF order = <<>> THEN st = SessionState
    ELSE LET c == history[Head(order)]
             r == Serial(st, c.ev)
         IN /\ r.rec = c.rec
            /\ SerialRunMatches(Tail(order), r.st)

\* the orders in which n calls can be made one at a time
Orderings(n) ==
    {p \in [1..n -> 1..n] : \A i, j \in 1..n : i # j => p[i] # p[j]}

\* the order in which the calls finished
FinishOrder == [i \in 1..Len(history) |-> i]

\* calls made one after another behave as Serial says
SerialAgrees == AllIdle => SerialRunMatches(FinishOrder, NewSession)

\* C11: a TurnComplete running with no concurrent call (SeqObsSpec) leaves,
\* when it returns, the turn counter one above the value it found, the
\* sequence counter 0, no previous kind and an empty kind history, and it has
\* submitted no record.
C11_TurnCompleteResets ==
    [][\A t \in Threads :
         (obsPc[t] = "clear_history" /\ obsPc'[t] = "idle") =>
            /\ turn_counter' = obsLocal[t].turn0 + 1
            /\ sequence_counter' = 0
            /\ previous_action_type' = None
            /\ turn_action_sequence' = <<>>
            /\ Len(payload') = obsLocal[t].submitted0
            /\ nAction' = obsLocal[t].submitted0]_vars

\* C11 witness: a TurnComplete has just returned after an LlmResponse of the
\* same turn; the counters and the history it found were not at their reset
\* values
C11_Witness ==
    /\ AllIdle
    /\ Len(history) >= 2
    /\ history[Len(history)].ev = "TurnComplete"
    /\ history[Len(history) - 1].ev = "LlmResponse"
    /\ turn_counter = 1
    /\ sequence_counter = 0
    /\ previous_action_type = None
    /\ turn_action_sequence = <<>>
    /\ Len(payload) = 1

\* C12: when record_event calls are made one after another (SeqObsSpec), the
\* LlmResponse and ToolCall calls, and only they, produce a record, and the
\* record's sequence_index is the number of records produced since the latest
\* TurnComplete (since the start for the first turn): 0, 1, 2, ... without
\* gap, in production order.
C12_SequenceIndexCounts ==
    /\ \A i \in 1..Len(history) :
         /\ Produced(i) <=> history[i].ev \in {"LlmResponse", "ToolCall"}
         /\ Produced(i) =>
              history[i].rec[1].sequence_index =
                Cardinality({j \in (LastTurnComplete(i) + 1)..(i - 1) :
                               Produced(j)})
    /\ AllIdle => payload = RecordsOf(history)

\* C12 witness: two records with indices 0 and 1, a TurnComplete, and a
\* record of the next turn with index 0 again
C12_Witness ==
    /\ AllIdle
    /\ Len(history) = 4
    /\ history[3].ev = "TurnComplete"
    /\ Len(payload) = 3
    /\ payload[1].sequence_index = 0
    /\ payload[2].sequence_index = 1
    /\ payload[3].sequence_index = 0
    /\ payload[3].turn_id = turn_id(1)

\* C13: no two records submitted by the observer carry the same pair
\* (turn_id, sequence_index), whatever the interleaving of the concurrent
\* record_event calls (ObsSpec).
C13_UniqueTurnSequence ==
    \A i, j \in 1..Len(payload) :
        i # j =>
          <<payload[i].turn_id, payload[i].sequence_index>> #
          <<payload[j].turn_id, payload[j].sequence_index>>

\* C14: whenever no call is in progress, the records the finished concurrent
\* calls produced and the session state they left are those of the same calls
\* made one at a time in some order (ObsSpec).
C14_Serializable ==
    AllIdle =>
      \E order \in Orderings(Len(history)) :
          SerialRunMatches(order, NewSession)

\* an AgentStart was called in the turn of record k before any record of
\* that turn was produced
StartedByAgentStart(k) ==
    \E i \in 1..Len(starts) :
        /\ turn_id(starts[i].turn) = payload[k].turn_id
        /\ \A j \in 1..starts[i].produced :
             payload[j].turn_id # payload[k].turn_id

\* C15: a record with is_user_initiated = true has sequence_index 0 and
\* belongs to a turn that began with an AgentStart; every later record of the
\* same turn carries false (calls made one after another, SeqObsSpec).
C15_FlagOnlyOnFirstRecord ==
    \A k \in 1..Len(payload) :
        payload[k].is_user_initiated =>
          /\ payload[k].sequence_index = 0
          /\ StartedByAgentStart(k)
          /\ \A j \in 1..(k - 1) : payload[j].turn_id # payload[k].turn_id

\* the records submitted after the i-th AgentStart and before the next one
AfterStart(i) ==
    (starts[i].produced + 1)..
      (IF i < Len(starts) THEN starts[i + 1].produced ELSE Len(payload))

\* C16: between one AgentStart and the next, at most one record is produced
\* with is_user_initiated = true, whatever the interleaving of the concurrent
\* record_event calls (ObsSpec).
C16_FlagOneShot ==
    \A i \in 1..Len(starts) :
        Cardinality({k \in AfterStart(i) : payload[k].is_user_initiated}) <= 1

\* ---- properties of the reader ---------------------------------------------
\* the stored rows of the table the export read
ExportedTable ==
    IF exported[1].table = "action_events" THEN ActionRows ELSE SampleRows

\* the fields of an exported action event: all of ActionRecord's but the
\* embedding
ExportedFields == DOMAIN make_action_record \ {"tool_type_embedding"}

\* C17: an export called with lower bound b and limit L returns stored rows
\* with ts_epoch_ms >= b only, each once, in ascending ts_epoch_ms order;
\* it returns min(L, number of stored rows with ts_epoch_ms >= b) rows, and
\* every qualifying row left out has a timestamp no smaller than those of
\* the rows returned.
C17_ExportFilterOrderLimit ==
    (exported # None /\ exported[1].since_epoch_ms # None) =>
      LET e == exported[1]
          b == e.since_epoch_ms[1]
          rows == ExportedTable
          n == Len(e.ids)
          qualifying == {i \in 1..Len(rows) : rows[i]["ts_epoch_ms"][2] >= b}
          epoch(k) == rows[e.ids[k]]["ts_epoch_ms"][2]
      IN /\ Len(e.rows) = n
         /\ \A k \in 1..n : e.ids[k] \in qualifying
         /\ \A k \in 1..n : e.rows[k].ts_epoch_ms = epoch(k)
         /\ \A j, k \in 1..n : j < k => e.ids[j] # e.ids[k]
         /\ \A j, k \in 1..n : j < k => epoch(j) <= epoch(k)
         /\ n = IF Cardinality(qualifying) < e.limit
                THEN Cardinality(qualifying) ELSE e.limit
         /\ \A i \in qualifying :
              (\A k \in 1..n : e.ids[k] # i) =>
                 \A k \in 1..n : epoch(k) <= rows[i]["ts_epoch_ms"][2]

\* C17 witness: three action rows stored with timestamps 2, 1, -1; an export
\* with lower bound 1 and limit 1 leaves out the row below the bound and,
\* by the limit, the row with timestamp 2, and returns the row at the bound
C17_Witness ==
    /\ exported # None
    /\ exported[1].table = "action_events"
    /\ exported[1].since_epoch_ms = Some(1)
    /\ exported[1].limit = 1
    /\ Len(action_events) = 3
    /\ EpochOf(ActionRows[1]) = 2
    /\ EpochOf(ActionRows[2]) = 1
    /\ EpochOf(ActionRows[3]) = -1
    /\ exported[1].ids = <<2>>

\* C18: every row export_action_events returns has, in each exported field,
\* the value of the ActionRecord that was submitted for the stored row it was
\* read from: absent optionals absent, booleans (tool_success,
\* is_user_initiated) with their truth value, integers and strings unchanged.
C18_RoundTrip ==
    (exported # None /\ exported[1].table = "action_events") =>
      \A k \in 1..Len(exported[1].rows) :
         LET submitted == payload[action_events[exported[1].ids[k]].id]
             row == exported[1].rows[k]
         IN /\ DOMAIN row = ExportedFields
            /\ \A f \in ExportedFields : row[f] = submitted[f]

\* C18 witness: an export returns the record of a failed tool call, with its
\* optional fields present, and a record with tool_success absent and
\* is_user_initiated true
C18_Witness ==
    /\ exported # None
    /\ exported[1].table = "action_events"
    /\ \E j, k \in 1..Len(exported[1].rows) :
         /\ exported[1].rows[j].tool_success = Some(FALSE)
         /\ exported[1].rows[j].error_message # None
         /\ exported[1].rows[j].is_user_initiated = FALSE
         /\ exported[1].rows[k].tool_success = None
         /\ exported[1].rows[k].is_user_initiated = TRUE
         /\ exported[1].rows[k].tokens_in = Some(100)

\* ---- properties of the collector ------------------------------------------
\* C19: the sample of every tick carries, for the process count and (on
\* Linux, where /proc/self/io is read) for the bytes read and written,
\* max(0, value read at this tick - value read at the previous tick), the
\* baseline reading being the previous value of the first tick; no sample
\* carries a negative delta, in either build.
C19_DeltasClamped ==
    \A k \in 1..Len(samplePayload) :
        LET s == samplePayload[k]
            cur == readings[k + 1]
            prev == readings[k]
            max0(x) == IF x > 0 THEN x ELSE 0
        IN /\ s.process_spawn_rate =
                max0(cur.process_count - prev.process_count)
           /\ target_os = "linux" =>
                /\ s.file_read_bytes = max0(cur.io[1] - prev.io[1])
                /\ s.file_write_bytes = max0(cur.io[2] - prev.io[2])
           /\ s.process_spawn_rate >= 0
           /\ s.file_read_bytes >= 0
           /\ s.file_write_bytes >= 0

\* C19 witness: on Linux, the process count falls from the baseline to the
\* first tick and rises to the second, while the bytes read rise and then
\* stay and the bytes written fall: the samples carry 0 then 1, 1 then 0,
\* and 0
C19_Witness ==
    /\ target_os = "linux"
    /\ Len(samplePayload) = 2
    /\ readings[1].process_count > readings[2].process_count
    /\ readings[3].process_count > readings[2].process_count
    /\ samplePayload[1].process_spawn_rate = 0
    /\ samplePayload[2].process_spawn_rate = 1
    /\ samplePayload[1].file_read_bytes = 1
    /\ samplePayload[2].file_read_bytes = 0
    /\ readings[2].io[2] < readings[1].io[2]
    /\ samplePayload[1].file_write_bytes = 0

\* ---- properties of shannon_entropy ----------------------------------------
\* the number of times address a occurs in the argument
TimesIn(a) == Cardinality({i \in 1..Len(values) : values[i] = a})

\* C20: shannon_entropy returns 0.0 for no value, 0.0 when all values are
\* the same, and log2(n) when n distinct values occur equally often each.
C20_EntropyValues ==
    entropy # None =>
      /\ values = <<>> => entropy[1] = Zero
      /\ Cardinality(Range(values)) = 1 => entropy[1] = Zero
      /\ (/\ values # <<>>
          /\ \A a, b \in Range(values) : TimesIn(a) = TimesIn(b))
         => entropy[1] = Log2(Cardinality(Range(values)))

\* C20 witness: the call returned log2(3), which is not 0.0, for three
\* distinct addresses occurring once each
C20_Witness ==
    /\ entropy # None
    /\ Len(values) = 3
    /\ Cardinality(Range(values)) = 3
    /\ entropy[1] = Log2(3)
    /\ entropy[1] # Zero

\* ---- properties of the store, continued -----------------------------------
\* C21: in the behaviours without database failure (FairSpec), once
\* shutdown() has been called the writer thread eventually ends, also when
\* the queue was full and the Shutdown sentinel was not enqueued; and when
\* the writer has ended every record the queue accepted is committed.
C21_ShutdownStopsWriter ==
    /\ (shutdownCalls > 0) ~> (pcWriter = "done")
    /\ []((shutdownCalls > 0 /\ pcWriter = "done")
            => \A r \in Range(accepted) : Persisted(r) = 1)

\* C21 witness: the writer has ended after a shutdown() whose sentinel found
\* the queue full; the records that filled the queue are committed
C21_Witness ==
    /\ shutdownCalls = 1
    /\ sentinelRes = "Full"
    /\ pcWriter = "done"
    /\ callerPc = "joining"
    /\ Len(accepted) >= Capacity
    /\ \A r \in Range(accepted) : Persisted(r) = 1

\* ---- properties of the observer, continued --------------------------------
\* the records handed to submit_action that carry turn id tid, in call order
RecordsOfTurn(tid) == SelectSeq(payload, LAMBDA r : r.turn_id = tid)

\* C22: when record_event calls are made one after another (SeqObsSpec), the
\* record with sequence_index k of a turn carries as previous_action_type the
\* kind of the turn's record k-1 (none when k = 0) and as
\* turn_action_sequence the serialized list of the kinds of the turn's
\* records 0..k-1: k entries, its own kind not among them.
C22_PreviousAndHistory ==
    \A n \in 0..turn_counter :
        LET s == RecordsOfTurn(turn_id(n))
            KindsOf(k) == [q \in 1..k |-> s[q].event_type]
        IN
        \A p \in 1..Len(s) :
            /\ s[p].sequence_index = p - 1
            /\ s[p].previous_action_type =
                 IF p = 1 THEN None ELSE Some(s[p - 1].event_type)
            /\ s[p].turn_action_sequence = Some(to_json(KindsOf(p - 1)))

\* C22 witness: after a turn with one record, the third record of the next
\* turn follows an LlmResponse and a ToolCall
C22_Witness ==
    /\ Len(payload) = 4
    /\ payload[1].turn_id = turn_id(0)
    /\ payload[4].turn_id = turn_id(1)
    /\ payload[4].sequence_index = 2
    /\ payload[4].previous_action_type = Some("tool_call")
    /\ payload[4].turn_action_sequence =
         Some(to_json(<<"llm_response", "tool_call">>))

C24_OneSubmitPerRecordedEvent ==
    /\ [](/\ nAction = Len(payload)
          /\ nAction =
               Cardinality({i \in 1..Len(history) :
                              history[i].ev \in {"LlmResponse", "ToolCall"}})
               + Cardinality({t \in Threads : obsPc[t] = "clear_flag"})
          /\ \A i \in 1..Len(history) :
               Produced(i) <=> history[i].ev \in {"LlmResponse", "ToolCall"})
    /\ [][(/\ Len(history') = Len(history) + 1
           /\ history'[Len(history')].ev
                \in {"Other", "record_metric", "flush"})
            => UNCHANGED <<sessionVars, nAction, payload, queue,
                            accepted>>]_vars
    /\ [][(/\ Len(history') = Len(history) + 1
           /\ history'[Len(history')].ev \in {"AgentStart", "TurnComplete"})
            => UNCHANGED <<nAction, payload, queue, accepted>>]_vars

\* C24 witness: an LlmResponse and a ToolCall have made one submit each;
\* an event of another kind made after them left the session state of the
\* two records in place
C24_Witness ==
    /\ AllIdle
    /\ Len(history) = 3
    /\ history[1].ev = "LlmResponse"
    /\ history[2].ev = "ToolCall"
    /\ history[3].ev = "Other"
    /\ nAction = 2
    /\ sequence_counter = 2
    /\ previous_action_type = Some("tool_call")
    /\ turn_action_sequence = <<"llm_response", "tool_call">>

\* ---- properties of writer_loop and flush_batch ----------------------------
\* C25: the queue never holds more than Capacity items and the batch never
\* more than 10, so at most Capacity + 10 are in flight; flush_batch is only
\* entered with a batch of 1 to 10 items, and the rows it inserts and commits
\* are rows of that one batch, in one transaction.
C25_BoundedInFlight ==
    /\ Len(queue) <= Capacity
    /\ Len(batch) <= BatchMax
    /\ Len(queue) + Len(batch) <= Capacity + BatchMax
    /\ pcWriter \in {"begin", "insert", "commit", "flushed"}
         => (1 <= Len(batch) /\ Len(batch) <= BatchMax)
    /\ pcWriter \in {"insert", "commit"}
         => (inTxn /\ Range(txnRows) \subseteq Range(batch))
    /\ flushResult = "committed"
         => (~inTxn /\ Range(lastCommit) \subseteq Range(batch))

\* C25 witness: a batch of 10 has been committed in one transaction while
\* another record waits in the queue
C25_Witness ==
    /\ pcWriter = "flushed"
    /\ Len(batch) = BatchMax
    /\ flushResult = "committed"
    /\ Len(lastCommit) = BatchMax
    /\ Len(queue) >= 1

\* C26: the bounded wait is entered only with a batch of exactly one item and
\* never when the drain left two or more; the wait ends in a flush of that
\* item, alone or with the one item that arrived; and without database
\* failure (FairSpec) the flush that follows a wait commits its batch, also
\* when nothing more is submitted and shutdown() is not called.
C26_BoundedWaitThenFlush ==
    /\ [](pcWriter = "wait" => Len(batch) = 1)
    /\ [][(pcWriter = "drain" /\ pcWriter' # "drain" /\ Len(batch') >= 2)
            => pcWriter' = "begin"]_vars
    /\ [][(pcWriter = "wait" /\ pcWriter' # "wait")
            => /\ pcWriter' = "begin"
               /\ Len(batch') \in {1, 2}
               /\ batch'[1] = batch[1]]_vars
    /\ (pcWriter = "wait")
         ~> (/\ pcWriter = "flushed"
             /\ flushResult = "committed"
             /\ Len(batch) \in {1, 2}
             /\ lastCommit = batch)

\* C26 witness: the only record ever submitted has been committed by the
\* flush after the wait; shutdown() has not been called
C26_Witness ==
    /\ nAction + nSample = 1
    /\ shutdownCalls = 0
    /\ pcWriter = "flushed"
    /\ Len(batch) = 1
    /\ flushResult = "committed"
    /\ lastCommit = batch
    /\ Persisted(batch[1]) = 1

\* C27 (as claimed): whenever flush_batch has returned, the connection has no
\* open transaction and holds no uncommitted row.
C27_NoTransactionLeftOpen ==
    pcWriter = "flushed" => (~inTxn /\ txnRows = <<>>)

\* ---- properties of the observer, continued --------------------------------
\* C28 (as claimed): of two records of one turn that the queue accepted, the
\* one enqueued first does not carry the higher sequence_index, whatever the
\* interleaving of the concurrent record_event calls (ObsSpec).
C28_EnqueuedInSequenceOrder ==
    \A i, j \in 1..Len(accepted) :
        (i < j /\ payload[accepted[i].id].turn_id
                    = payload[accepted[j].id].turn_id)
            => payload[accepted[i].id].sequence_index
                 <= payload[accepted[j].id].sequence_index

\* ---- properties of the reader, continued ----------------------------------
\* C29 (as claimed): an export called with no lower bound returns
\* min(limit, number of stored rows) rows, whatever their ts_epoch_ms.
C29_NoBoundReturnsAllRows ==
    (exported # None /\ exported[1].since_epoch_ms = None) =>
      Len(exported[1].rows) =
         IF Len(ExportedTable) < exported[1].limit
         THEN Len(ExportedTable) ELSE exported[1].limit

\* the ops of the batch whose INSERT succeeded, in batch order
Inserted ==
    LET ok == SelectSeq([i \in 1..Len(batch) |-> i],
                        LAMBDA i : i \notin failedIdx)
    IN [k \in 1..Len(ok) |-> batch[ok[k]]]

\* C30: the committed tables, which are all a reader's connection sees,
\* change only by taking in at once every row the flush in progress
\* inserted; so at the moment of an export the table it reads holds no row
\* of the batch the writer is collecting or flushing, or (after the COMMIT)
\* every inserted row of it, and the export returns committed rows only.
C30_WholeBatchOrNothing ==
    /\ [][<<action_events, system_samples>>'
             # <<action_events, system_samples>>
            => /\ action_events' =
                    action_events \o SelectSeq(Inserted, IsActionEvent)
               /\ system_samples' =
                    system_samples \o SelectSeq(Inserted, IsSystemSample)]_vars
    /\ [](exported # None =>
            LET table == IF exported[1].table = "action_events"
                         THEN action_events ELSE system_samples
                mine(op) == IF exported[1].table = "action_events"
                            THEN IsActionEvent(op) ELSE IsSystemSample(op)
            IN /\ \A k \in 1..Len(exported[1].ids) :
                    exported[1].ids[k] \in 1..Len(table)
               /\ IF pcWriter = "flushed" /\ flushResult = "committed"
                  THEN Range(SelectSeq(Inserted, mine)) \subseteq Range(table)
                  ELSE Range(batch) \cap Range(table) = {})

\* C30 witness: an export made while the writer is in the middle of the
\* INSERTs of a batch of two returns a row of the batch committed before and
\* no row of the batch in progress
C30_Witness ==
    /\ exported # None
    /\ exported[1].table = "action_events"
    /\ pcWriter = "insert"
    /\ Len(batch) = 2
    /\ idx = 2
    /\ Len(txnRows) = 1
    /\ Len(action_events) = 1
    /\ exported[1].ids = <<1>>

\* ---- properties of the observer and the queue -----------------------------
\* C31: the step that hands a record to submit_action changes no field of
\* the session state, whether the queue accepts the record or drops it; and
\* between calls made one after another (SeqObsSpec) the session state
\* counts every record handed over in the turn, dropped ones included: the
\* sequence counter is their number, the history lists their kinds, the
\* previous kind is that of the last, and the whole state is the one the
\* calls made so far give whatever the queue answered.
C31_StateIndependentOfQueue ==
    /\ [][nAction' = nAction + 1
            => UNCHANGED <<turn_counter, sequence_counter,
                            previous_action_type, turn_action_sequence,
                            is_user_initiated>>]_vars
    /\ [](AllIdle =>
            LET s == RecordsOfTurn(turn_id(turn_counter)) IN
            /\ sequence_counter = Len(s)
            /\ turn_action_sequence = [q \in 1..Len(s) |-> s[q].event_type]
            /\ previous_action_type =
                 IF s = <<>> THEN None ELSE Some(s[Len(s)].event_type)
            /\ SerialRunMatches(FinishOrder, NewSession))

\* C31 witness: the queue took two records and dropped the third, a
\* ToolCall; the third has its sequence index, is in the history and is the
\* previous kind
C31_Witness ==
    /\ AllIdle
    /\ Len(payload) = 3
    /\ Len(accepted) = Capacity
    /\ Len(queue) = Capacity
    /\ ActionEvent(3) \notin Range(accepted)
    /\ payload[3].sequence_index = 2
    /\ payload[3].event_type = "tool_call"
    /\ sequence_counter = 3
    /\ Len(turn_action_sequence) = 3
    /\ previous_action_type = Some("tool_call")

====
